---- MODULE Spec2Model ----
(***************************************************************************)
(* The multi-signature wallet contract                                     *)
(* (contract/multisig_wallet_contract/src/lib.rs) as a state machine.      *)
(*                                                                         *)
(* Every public operation of the contract is one action.  The host runs a  *)
(* call to completion and discards all of its writes when it panics or     *)
(* returns an error, so an action is enabled exactly when the call         *)
(* succeeds: its guard is the conjunction of the negations of the code's   *)
(* panics and early returns, and a failed call is a step that changes      *)
(* nothing.                                                                *)
(***************************************************************************)
EXTENDS Integers, Sequences, FiniteSets, TLC

(***************************************************************************)
(* Program constants.                                                      *)
(***************************************************************************)
SECONDS_PER_DAY == 86400

(***************************************************************************)
(* Bounds of the model: the number of stored proposals (transactions plus  *)
(* batches), the largest nonce offered, and the number of clock ticks of   *)
(* half a day each.                                                        *)
(***************************************************************************)
MaxProposals == 3

MaxNonce == 2

MaxTicks == 1

HalfDay == SECONDS_PER_DAY \div 2

MaxTime == MaxTicks * HalfDay

(***************************************************************************)
(* Option<T>: None is the empty sequence, Some(x) a one-element sequence.  *)
(***************************************************************************)
None == << >>

Some(x) == << x >>

IsSome(o) == Len(o) = 1

Unwrap(o) == o[1]

(***************************************************************************)
(* Vec helpers.                                                            *)
(***************************************************************************)
Contains(s, x) == \E i \in 1..Len(s) : s[i] = x

RemoveAt(s, i) == [j \in 1..(Len(s) - 1) |-> IF j < i THEN s[j] ELSE s[j + 1]]

Min(S) == CHOOSE x \in S : \A y \in S : x <= y

(***************************************************************************)
(* Identities.  CONTRACT is the wallet's own address                       *)
(* (e.current_contract_address()).                                         *)
(***************************************************************************)
CONTRACT == "WALLET"

ADMIN == "ADMIN"

(***************************************************************************)
(* The contract's storage, the ledger clock and the token ledger.          *)
(***************************************************************************)
VARIABLES
    admin,           \* DataKey::Admin: Option<Address>
    config,          \* DataKey::WalletConfig: Option<WalletConfig>
    paused,          \* DataKey::Paused
    frozen,          \* DataKey::Frozen
    unfreeze_time,   \* "unfreeze_time": Option<u64>
    signers,         \* DataKey::Signers: Vec<Signer>
    nonce_manager,   \* DataKey::Nonce: NonceManager.used_nonces, Map<Address, u64>
    txs,             \* DataKey::Transaction(id): Map id -> Transaction
    batches,         \* DataKey::Batch(id): Map id -> Batch
    timelock_queue,  \* DataKey::TimelockQueue
    daily_spending,  \* DataKey::DailySpending(day): Map day -> DailySpending
    now,             \* e.ledger().timestamp()
    transfers        \* the token contract's log: tx id -> times of transfer calls

vars == << admin, config, paused, frozen, unfreeze_time, signers, nonce_manager,
           txs, batches, timelock_queue, daily_spending, now, transfers >>

WalletConfig(m, n, limit, threshold, duration, expiry, batch_size, freeze) ==
    [m |-> m, n |-> n, daily_spending_limit |-> limit,
     timelock_threshold |-> threshold, timelock_duration |-> duration,
     transaction_expiry |-> expiry, max_batch_size |-> batch_size,
     emergency_freeze_duration |-> freeze]

EmptyMap == [x \in {} |-> 0]

(***************************************************************************)
(* Helper functions of the contract.                                       *)
(***************************************************************************)
validate_config(c) ==
    /\ ~(c.m = 0 \/ c.n = 0)
    /\ ~(c.m > c.n)
    /\ ~(c.daily_spending_limit <= 0)
    /\ ~(c.timelock_threshold <= 0)
    /\ ~(c.max_batch_size = 0)

\* add_signer_internal panics when the address is already registered.
add_signer_exists_as_last(sgs, a) == Len(sgs) > 0 /\ sgs[Len(sgs)].address = a

add_signer_exists(sgs, a) == \E i \in 1..Len(sgs) : sgs[i].address = a

add_signer_internal(sgs, a, role, weight) ==
    Append(sgs, [address |-> a, role |-> role, weight |-> weight, active |-> TRUE])

\* initialize's loop over initial_signers: ok is FALSE when an iteration panics.
RECURSIVE add_initial_signers(_, _)
add_initial_signers(list, acc) ==
    IF list = << >> THEN [ok |-> TRUE, signers |-> acc]
    ELSE IF add_signer_exists(acc, Head(list)) THEN [ok |-> FALSE, signers |-> acc]
    ELSE add_initial_signers(Tail(list), add_signer_internal(acc, Head(list), "Owner", 1))

validate_signer_accepts_unknown(sgs, a) ==
    LET hits == {i \in 1..Len(sgs) : sgs[i].address = a}
    IN  IF hits = {} THEN "Ok"
        ELSE IF ~sgs[Min(hits)].active THEN "SignerNotActive"
        ELSE "Ok"

validate_signer_unchecked(sgs, a) == "Ok"

\* validate_signer: the first registry entry with the address decides.
validate_signer(sgs, a) ==
    LET hits == {i \in 1..Len(sgs) : sgs[i].address = a}
    IN  IF hits = {} THEN "InvalidSigner"
        ELSE IF ~sgs[Min(hits)].active THEN "SignerNotActive"
        ELSE "Ok"

validate_nonce_accepts_last(nm, signer, nonce) ==
    ~(signer \in DOMAIN nm /\ nonce < nm[signer])

validate_nonce(nm, signer, nonce) ==
    ~(signer \in DOMAIN nm /\ nonce <= nm[signer])

use_nonce_not_recorded(nm, signer, nonce) == nm

use_nonce(nm, signer, nonce) == (signer :> nonce) @@ nm

\* The inner loop of has_required_signatures: the weight added for one
\* signature is that of the first active registry entry with its address.
signature_weight(sgs, signature) ==
    LET hits == {i \in 1..Len(sgs) : sgs[i].address = signature /\ sgs[i].active}
    IN  IF hits = {} THEN 0 ELSE sgs[Min(hits)].weight

\* total_weight is a u32 sum; the weights of the model stay far below 2^32.
RECURSIVE total_weight(_, _)
total_weight(sgs, signatures) ==
    IF signatures = << >> THEN 0
    ELSE signature_weight(sgs, Head(signatures)) + total_weight(sgs, Tail(signatures))

has_required_signatures_counts_signatures(sgs, signatures, required) ==
    Len(signatures) >= required

has_required_signatures(sgs, signatures, required) ==
    total_weight(sgs, signatures) >= required

has_required_signatures_batch_counts_signatures(sgs, signatures, required) ==
    Len(signatures) >= required

has_required_signatures_batch(sgs, signatures, required) ==
    total_weight(sgs, signatures) >= required

get_today_timestamp_one_bucket(t) == 0

get_today_timestamp(t) == (t \div SECONDS_PER_DAY) * SECONDS_PER_DAY

\* The day's record, or the default built from the current config.
day_record(ds, c, t) ==
    LET today == get_today_timestamp(t)
    IN  IF today \in DOMAIN ds THEN ds[today]
        ELSE [date |-> today, spent |-> 0, limit |-> c.daily_spending_limit]

check_daily_spending_ignores_spent(ds, c, t, amount) ==
    ~(amount > day_record(ds, c, t).limit)

check_daily_spending(ds, c, t, amount) ==
    LET rec == day_record(ds, c, t)
    IN  ~(rec.spent + amount > rec.limit)

update_daily_spending_overwrites(ds, c, t, amount) ==
    LET rec == day_record(ds, c, t)
    IN  (get_today_timestamp(t) :> [rec EXCEPT !.spent = amount]) @@ ds

update_daily_spending(ds, c, t, amount) ==
    LET rec == day_record(ds, c, t)
    IN  (get_today_timestamp(t) :> [rec EXCEPT !.spent = rec.spent + amount]) @@ ds

\* The ids are sha256 digests of these fields: the model keeps the fields.
generate_transaction_id_without_nonce(to, token, amount, proposer, nonce, t) ==
    << to, token, amount, proposer, 0, t >>

generate_transaction_id(to, token, amount, proposer, nonce, t) ==
    << to, token, amount, proposer, nonce, t >>

generate_batch_id(transactions, proposer, nonce, t) ==
    << Len(transactions), proposer, nonce, t, transactions >>

Initialized == IsSome(admin)

(***************************************************************************)
(* The state of a freshly deployed contract: empty storage.                *)
(***************************************************************************)
Init ==
    /\ admin = None
    /\ config = None
    /\ paused = FALSE
    /\ frozen = FALSE
    /\ unfreeze_time = None
    /\ signers = << >>
    /\ nonce_manager = EmptyMap
    /\ txs = EmptyMap
    /\ batches = EmptyMap
    /\ timelock_queue = [pending |-> << >>, ready |-> << >>, executed |-> << >>]
    /\ daily_spending = EmptyMap
    /\ now = 0
    /\ transfers = EmptyMap

(***************************************************************************)
(* initialize(admin, config, initial_signers)                              *)
(***************************************************************************)
initialize_again(adm, c, initial_signers) ==
    LET added == add_initial_signers(initial_signers, signers)
    IN  /\ validate_config(c)
        /\ added.ok
        /\ admin' = Some(adm)
        /\ config' = Some(c)
        /\ paused' = FALSE
        /\ frozen' = FALSE
        /\ nonce_manager' = EmptyMap
        /\ timelock_queue' = [pending |-> << >>, ready |-> << >>, executed |-> << >>]
        /\ signers' = added.signers
        /\ UNCHANGED << unfreeze_time, txs, batches, daily_spending, now, transfers >>

initialize(adm, c, initial_signers) ==
    LET added == add_initial_signers(initial_signers, signers)
    IN  /\ ~Initialized
        /\ validate_config(c)
        /\ added.ok
        /\ admin' = Some(adm)
        /\ config' = Some(c)
        /\ paused' = FALSE
        /\ frozen' = FALSE
        /\ nonce_manager' = EmptyMap
        /\ timelock_queue' = [pending |-> << >>, ready |-> << >>, executed |-> << >>]
        /\ signers' = added.signers
        /\ UNCHANGED << unfreeze_time, txs, batches, daily_spending, now, transfers >>

(***************************************************************************)
(* add_signer(signer_address, role, weight); auth: the admin authorized.   *)
(***************************************************************************)
add_signer(a, role, weight, auth) ==
    /\ Initialized
    /\ auth
    /\ ~add_signer_exists(signers, a)
    /\ signers' = add_signer_internal(signers, a, role, weight)
    /\ UNCHANGED << admin, config, paused, frozen, unfreeze_time, nonce_manager,
                    txs, batches, timelock_queue, daily_spending, now, transfers >>

(***************************************************************************)
(* remove_signer(signer_address)                                           *)
(***************************************************************************)
\* The check that the registry still holds m signers after the removal.
remove_leaves_m_off_by_one(sgs, c) == ~(Len(sgs) < c.m)

remove_leaves_m(sgs, c) == ~(Len(sgs) - 1 < c.m)

remove_signer(a, auth) ==
    /\ Initialized
    /\ auth
    /\ \E i \in 1..Len(signers) : signers[i].address = a
    /\ LET signer_index == Min({i \in 1..Len(signers) : signers[i].address = a})
       IN  /\ remove_leaves_m(signers, Unwrap(config))
           /\ signers' = RemoveAt(signers, signer_index)
    /\ UNCHANGED << admin, config, paused, frozen, unfreeze_time, nonce_manager,
                    txs, batches, timelock_queue, daily_spending, now, transfers >>

(***************************************************************************)
(* propose_transaction(to, token, amount, data, proposer, nonce)           *)
(***************************************************************************)
\* The flags propose_transaction and propose_batch read before anything else.
wallet_paused == paused

wallet_frozen_unchecked == FALSE

wallet_frozen == frozen

\* The timelock of a proposal made at time t.
propose_timelock_until_above_threshold(c, amount, t) ==
    IF amount > c.timelock_threshold THEN t + c.timelock_duration ELSE 0

propose_timelock_until(c, amount, t) ==
    IF amount >= c.timelock_threshold THEN t + c.timelock_duration ELSE 0

propose_transaction(to, token, amount, proposer, nonce) ==
    /\ Initialized
    /\ ~wallet_paused
    /\ ~wallet_frozen
    /\ validate_nonce(nonce_manager, proposer, nonce)
    /\ validate_signer(signers, proposer) = "Ok"
    /\ LET c == Unwrap(config)
           transaction_id == generate_transaction_id(to, token, amount, proposer, nonce, now)
           timelock_until == propose_timelock_until(c, amount, now)
           transaction == [id |-> transaction_id, to |-> to, token |-> token,
                           amount |-> amount, proposer |-> proposer,
                           signatures |-> << >>, status |-> "Proposed",
                           created_at |-> now,
                           expires_at |-> now + c.transaction_expiry,
                           timelock_until |-> timelock_until,
                           batch_id |-> None]
       IN  /\ txs' = (transaction_id :> transaction) @@ txs
           /\ transfers' = IF transaction_id \in DOMAIN transfers THEN transfers
                           ELSE (transaction_id :> << >>) @@ transfers
           /\ timelock_queue' =
                  IF timelock_until > 0
                  THEN [timelock_queue EXCEPT !.pending = Append(@, transaction_id)]
                  ELSE timelock_queue
    /\ nonce_manager' = use_nonce(nonce_manager, proposer, nonce)
    /\ UNCHANGED << admin, config, paused, frozen, unfreeze_time, signers,
                    batches, daily_spending, now >>

(***************************************************************************)
(* sign_transaction(transaction_id, signer); auth: the signer authorized.  *)
(***************************************************************************)
\* The status check of sign_transaction.
sign_status_ok_after_approval(transaction) ==
    transaction.status \in {"Proposed", "Approved"}

sign_status_ok(transaction) == ~(transaction.status /= "Proposed")

sign_transaction(transaction_id, signer, auth) ==
    /\ auth
    /\ transaction_id \in DOMAIN txs
    /\ sign_status_ok(txs[transaction_id])
    /\ ~(now > txs[transaction_id].expires_at)
    /\ validate_signer(signers, signer) = "Ok"
    /\ ~Contains(txs[transaction_id].signatures, signer)
    /\ LET signatures == Append(txs[transaction_id].signatures, signer)
       IN  /\ txs' = [txs EXCEPT ![transaction_id] =
                        [@ EXCEPT !.signatures = signatures,
                                  !.status =
                                      IF has_required_signatures(signers, signatures,
                                                                 Unwrap(config).m)
                                      THEN "Approved" ELSE "Proposed"]]
    /\ UNCHANGED << admin, config, paused, frozen, unfreeze_time, signers,
                    nonce_manager, batches, timelock_queue, daily_spending, now,
                    transfers >>

(***************************************************************************)
(* execute_transaction(transaction_id); transfer_fails: the ids whose      *)
(* token transfer the token contract would reject (aborting the call).     *)
(***************************************************************************)
\* The status, expiry and timelock checks of execute_transaction.
execute_status_ok_reexecutes(transaction) == ~(transaction.status = "Proposed")

execute_status_ok(transaction) == ~(transaction.status /= "Approved")

execute_not_expired_while_unfrozen(transaction, t) ==
    ~frozen /\ ~(t > transaction.expires_at)

execute_not_expired(transaction, t) == ~(t > transaction.expires_at)

timelock_expired_unchecked(transaction, t) == TRUE

timelock_expired(transaction, t) ==
    ~(transaction.timelock_until > 0 /\ t < transaction.timelock_until)

execute_transaction(transaction_id, transfer_fails) ==
    /\ transaction_id \in DOMAIN txs
    /\ execute_status_ok(txs[transaction_id])
    /\ execute_not_expired(txs[transaction_id], now)
    /\ timelock_expired(txs[transaction_id], now)
    /\ check_daily_spending(daily_spending, Unwrap(config), now, txs[transaction_id].amount)
    /\ transaction_id \notin transfer_fails
    /\ transfers' = [transfers EXCEPT ![transaction_id] = Append(@, now)]
    /\ txs' = [txs EXCEPT ![transaction_id].status = "Executed"]
    /\ daily_spending' = update_daily_spending(daily_spending, Unwrap(config), now,
                                               txs[transaction_id].amount)
    \* queue.ready is never written by any call, so remove_first on it
    \* removes nothing.
    /\ timelock_queue' =
           IF txs[transaction_id].timelock_until > 0
           THEN [timelock_queue EXCEPT !.executed = Append(@, transaction_id)]
           ELSE timelock_queue
    /\ UNCHANGED << admin, config, paused, frozen, unfreeze_time, signers,
                    nonce_manager, batches, now >>

(***************************************************************************)
(* propose_batch(transactions, proposer, nonce)                            *)
(***************************************************************************)
\* The checks the validation loop makes on a stored member.
batch_member_ok_ignores_batch_id(tx) == ~(tx.status /= "Proposed")

batch_member_ok(tx) ==
    /\ ~(tx.status /= "Proposed")
    /\ ~IsSome(tx.batch_id)

propose_batch(transactions, proposer, nonce) ==
    /\ Initialized
    /\ ~wallet_paused
    /\ ~wallet_frozen
    /\ validate_nonce(nonce_manager, proposer, nonce)
    /\ validate_signer(signers, proposer) = "Ok"
    /\ ~(Len(transactions) > Unwrap(config).max_batch_size)
    /\ \A i \in 1..Len(transactions) :
           /\ transactions[i] \in DOMAIN txs
           /\ batch_member_ok(txs[transactions[i]])
    /\ LET batch_id == generate_batch_id(transactions, proposer, nonce, now)
           batch == [id |-> batch_id, transactions |-> transactions,
                     proposer |-> proposer, signatures |-> << >>,
                     status |-> "Proposed", created_at |-> now,
                     expires_at |-> now + Unwrap(config).transaction_expiry]
       IN  /\ batches' = (batch_id :> batch) @@ batches
           /\ txs' = [id \in DOMAIN txs |->
                         IF Contains(transactions, id)
                         THEN [txs[id] EXCEPT !.batch_id = Some(batch_id)]
                         ELSE txs[id]]
    /\ nonce_manager' = use_nonce(nonce_manager, proposer, nonce)
    /\ UNCHANGED << admin, config, paused, frozen, unfreeze_time, signers,
                    timelock_queue, daily_spending, now, transfers >>

(***************************************************************************)
(* sign_batch(batch_id, signer); auth: the signer authorized the call.     *)
(***************************************************************************)
sign_batch_approves_members(batch_id, signer, auth) ==
    /\ auth
    /\ batch_id \in DOMAIN batches
    /\ batches[batch_id].status = "Proposed"
    /\ ~(now > batches[batch_id].expires_at)
    /\ validate_signer(signers, signer) = "Ok"
    /\ ~Contains(batches[batch_id].signatures, signer)
    /\ LET signatures == Append(batches[batch_id].signatures, signer)
           approved == has_required_signatures_batch(signers, signatures,
                                                     Unwrap(config).m)
       IN  /\ batches' = [batches EXCEPT ![batch_id] =
                            [@ EXCEPT !.signatures = signatures,
                                      !.status = IF approved THEN "Approved"
                                                 ELSE "Proposed"]]
           /\ txs' = [id \in DOMAIN txs |->
                         IF approved /\ Contains(batches[batch_id].transactions, id)
                         THEN [txs[id] EXCEPT !.status = "Approved"]
                         ELSE txs[id]]
    /\ UNCHANGED << admin, config, paused, frozen, unfreeze_time, signers,
                    nonce_manager, timelock_queue, daily_spending, now, transfers >>

sign_batch(batch_id, signer, auth) ==
    /\ auth
    /\ batch_id \in DOMAIN batches
    /\ batches[batch_id].status = "Proposed"
    /\ ~(now > batches[batch_id].expires_at)
    /\ validate_signer(signers, signer) = "Ok"
    /\ ~Contains(batches[batch_id].signatures, signer)
    /\ LET signatures == Append(batches[batch_id].signatures, signer)
       IN  /\ batches' = [batches EXCEPT ![batch_id] =
                            [@ EXCEPT !.signatures = signatures,
                                      !.status =
                                          IF has_required_signatures_batch(
                                                 signers, signatures, Unwrap(config).m)
                                          THEN "Approved" ELSE "Proposed"]]
    /\ UNCHANGED << admin, config, paused, frozen, unfreeze_time, signers,
                    nonce_manager, txs, timelock_queue, daily_spending, now,
                    transfers >>

(***************************************************************************)
(* execute_batch(batch_id).  The loop reads each member from storage in    *)
(* list order; st is the storage as the loop has left it so far, and       *)
(* st.ok turns FALSE when a member's token transfer aborts the call.       *)
(***************************************************************************)
execute_batch_member_executes_all(st, tx_id, c, t, transfer_fails) ==
    IF st.txs[tx_id].status \in {"Proposed", "Approved"}
    THEN [ok |-> st.ok,
          txs |-> [st.txs EXCEPT ![tx_id].status = "Executed"],
          transfers |-> [st.transfers EXCEPT ![tx_id] = Append(@, t)],
          daily_spending |-> update_daily_spending(st.daily_spending, c, t,
                                                   st.txs[tx_id].amount)]
    ELSE st

execute_batch_member_skips_failed(st, tx_id, c, t, transfer_fails) ==
    IF st.txs[tx_id].status = "Approved" /\ tx_id \notin transfer_fails
    THEN [ok |-> st.ok,
          txs |-> [st.txs EXCEPT ![tx_id].status = "Executed"],
          transfers |-> [st.transfers EXCEPT ![tx_id] = Append(@, t)],
          daily_spending |-> update_daily_spending(st.daily_spending, c, t,
                                                   st.txs[tx_id].amount)]
    ELSE st

execute_batch_member(st, tx_id, c, t, transfer_fails) ==
    IF st.txs[tx_id].status = "Approved"
    THEN IF tx_id \in transfer_fails
         THEN [st EXCEPT !.ok = FALSE]
         ELSE [ok |-> st.ok,
               txs |-> [st.txs EXCEPT ![tx_id].status = "Executed"],
               transfers |-> [st.transfers EXCEPT ![tx_id] = Append(@, t)],
               daily_spending |-> update_daily_spending(st.daily_spending, c, t,
                                                        st.txs[tx_id].amount)]
    ELSE st

RECURSIVE execute_batch_loop(_, _, _, _, _)
execute_batch_loop(st, transactions, c, t, transfer_fails) ==
    IF transactions = << >> \/ ~st.ok THEN st
    ELSE execute_batch_loop(
             execute_batch_member(st, Head(transactions), c, t, transfer_fails),
             Tail(transactions), c, t, transfer_fails)

execute_batch(batch_id, transfer_fails) ==
    /\ batch_id \in DOMAIN batches
    /\ batches[batch_id].status = "Approved"
    /\ ~(now > batches[batch_id].expires_at)
    /\ LET st == execute_batch_loop(
                     [ok |-> TRUE, txs |-> txs, transfers |-> transfers,
                      daily_spending |-> daily_spending],
                     batches[batch_id].transactions, Unwrap(config), now,
                     transfer_fails)
       IN  /\ st.ok
           /\ txs' = st.txs
           /\ transfers' = st.transfers
           /\ daily_spending' = st.daily_spending
    /\ batches' = [batches EXCEPT ![batch_id].status = "Executed"]
    /\ UNCHANGED << admin, config, paused, frozen, unfreeze_time, signers,
                    nonce_manager, timelock_queue, now >>

(***************************************************************************)
(* emergency_freeze(duration) and unfreeze().  auth: the admin authorized  *)
(* the call.  unfreeze compares the wallet's own address with the admin    *)
(* and asks for the admin's authorization before the recorded time.        *)
(***************************************************************************)
emergency_freeze(duration, auth) ==
    /\ Initialized
    /\ auth
    /\ frozen' = TRUE
    /\ unfreeze_time' = Some(now + duration)
    /\ UNCHANGED << admin, config, paused, signers, nonce_manager, txs, batches,
                    timelock_queue, daily_spending, now, transfers >>

unfreeze_requires_admin_at_timeout ==
    /\ CONTRACT /= Unwrap(admin)
    /\ IF IsSome(unfreeze_time) THEN now <= Unwrap(unfreeze_time) ELSE TRUE

unfreeze_requires_admin ==
    /\ CONTRACT /= Unwrap(admin)
    /\ IF IsSome(unfreeze_time) THEN now < Unwrap(unfreeze_time) ELSE TRUE

unfreeze(auth) ==
    /\ Initialized
    /\ unfreeze_requires_admin => auth
    /\ frozen' = FALSE
    /\ unfreeze_time' = None
    /\ UNCHANGED << admin, config, paused, signers, nonce_manager, txs, batches,
                    timelock_queue, daily_spending, now, transfers >>

(***************************************************************************)
(* pause(), unpause(), update_config(new_config)                           *)
(***************************************************************************)
pause(auth) ==
    /\ Initialized
    /\ auth
    /\ paused' = TRUE
    /\ UNCHANGED << admin, config, frozen, unfreeze_time, signers, nonce_manager,
                    txs, batches, timelock_queue, daily_spending, now, transfers >>

unpause(auth) ==
    /\ Initialized
    /\ auth
    /\ paused' = FALSE
    /\ UNCHANGED << admin, config, frozen, unfreeze_time, signers, nonce_manager,
                    txs, batches, timelock_queue, daily_spending, now, transfers >>

update_config_restamps_transactions(new_config, auth) ==
    /\ Initialized
    /\ auth
    /\ validate_config(new_config)
    /\ config' = Some(new_config)
    /\ txs' = [id \in DOMAIN txs |->
                  [txs[id] EXCEPT !.expires_at =
                                      txs[id].created_at + new_config.transaction_expiry]]
    /\ UNCHANGED << admin, paused, frozen, unfreeze_time, signers, nonce_manager,
                    batches, timelock_queue, daily_spending, now, transfers >>

update_config_without_auth(new_config, auth) ==
    /\ Initialized
    /\ validate_config(new_config)
    /\ config' = Some(new_config)
    /\ UNCHANGED << admin, paused, frozen, unfreeze_time, signers, nonce_manager,
                    txs, batches, timelock_queue, daily_spending, now, transfers >>

update_config(new_config, auth) ==
    /\ Initialized
    /\ auth
    /\ validate_config(new_config)
    /\ config' = Some(new_config)
    /\ UNCHANGED << admin, paused, frozen, unfreeze_time, signers, nonce_manager,
                    txs, batches, timelock_queue, daily_spending, now, transfers >>

(***************************************************************************)
(* The ledger clock.                                                       *)
(***************************************************************************)
Tick(dt) ==
    /\ now + dt <= MaxTime
    /\ now' = now + dt
    /\ UNCHANGED << admin, config, paused, frozen, unfreeze_time, signers,
                    nonce_manager, txs, batches, timelock_queue, daily_spending,
                    transfers >>

(***************************************************************************)
(* Inputs of the calls.                                                    *)
(***************************************************************************)
Amounts == {1, 2}

\* Every list of at most two stored transaction ids, repeats included.
TxLists ==
    {<< >>} \cup {<< a >> : a \in DOMAIN txs}
            \cup {<< a, b >> : a \in DOMAIN txs, b \in DOMAIN txs}

\* The nonce a client sends next, and the one it used last.
NextNonces(p) ==
    IF p \in DOMAIN nonce_manager
    THEN {nonce_manager[p], nonce_manager[p] + 1}
    ELSE {0}

Proposals == Cardinality(DOMAIN txs) + Cardinality(DOMAIN batches)

(***************************************************************************)
(* Spec: one signer of weight 1 with m = 1; transactions and batches are   *)
(* proposed, signed and executed while the clock advances.                 *)
(***************************************************************************)
CfgExec == WalletConfig(1, 1, 3, 2, HalfDay, SECONDS_PER_DAY, 2, HalfDay)

Next ==
    \/ initialize(ADMIN, CfgExec, << "S1" >>)
    \/ \E a \in Amounts : \E n \in NextNonces("S1") :
           Proposals < MaxProposals /\ propose_transaction("R1", "TOKEN", a, "S1", n)
    \/ \E id \in DOMAIN txs : sign_transaction(id, "S1", TRUE)
    \/ \E id \in DOMAIN txs : execute_transaction(id, {})
    \/ \E l \in TxLists : \E n \in NextNonces("S1") :
           Proposals < MaxProposals /\ propose_batch(l, "S1", n)
    \/ \E b \in DOMAIN batches : sign_batch(b, "S1", TRUE)
    \/ \E b \in DOMAIN batches : execute_batch(b, {})
    \/ Tick(HalfDay)

Spec == Init /\ [][Next]_vars

(***************************************************************************)
(* C1: the token transfer of a transaction is invoked at most once over    *)
(* any sequence of execute_transaction and execute_batch calls, and        *)
(* execute_transaction on an Executed transaction fails.                   *)
(***************************************************************************)
C1_TransferAtMostOnce ==
    \A id \in DOMAIN txs :
        /\ Len(transfers[id]) <= 1
        /\ txs[id].status = "Executed" => ~ENABLED execute_transaction(id, {})

\* A transaction executed through execute_transaction while it is a member of
\* a batch that has been executed as well.
C1_Witness ==
    \E id \in DOMAIN txs :
        /\ txs[id].status = "Executed"
        /\ Len(transfers[id]) = 1
        /\ IsSome(txs[id].batch_id)
        /\ batches[Unwrap(txs[id].batch_id)].status = "Executed"

(***************************************************************************)
(* What the claims read off the state.                                     *)
(***************************************************************************)
Today == now - (now % SECONDS_PER_DAY)

\* The amount recorded as spent on day d, and the limit in force for d.
SpentOn(d) == IF d \in DOMAIN daily_spending THEN daily_spending[d].spent ELSE 0

LimitOn(d) ==
    IF d \in DOMAIN daily_spending THEN daily_spending[d].limit
    ELSE Unwrap(config).daily_spending_limit

Members(b) == {batches[b].transactions[i] : i \in 1..Len(batches[b].transactions)}

RECURSIVE SumAmounts(_)
SumAmounts(ids) ==
    IF ids = {} THEN 0
    ELSE LET id == CHOOSE x \in ids : TRUE
         IN  txs[id].amount + SumAmounts(ids \ {id})

(***************************************************************************)
(* C4: execute_transaction on an Approved transaction fails whenever the   *)
(* amount spent today plus its amount exceeds today's limit; the failed    *)
(* call transfers nothing and leaves the transaction Approved and the      *)
(* day's spending as they were (a failed call changes no state).           *)
(***************************************************************************)
C4_DailyLimitBlocksExecute ==
    \A id \in DOMAIN txs :
        (/\ txs[id].status = "Approved"
         /\ SpentOn(Today) + txs[id].amount > LimitOn(Today))
        => ~ENABLED execute_transaction(id, {})

\* An Approved transaction, past its timelock and unexpired, that no longer
\* fits under today's limit after an earlier execution today.
C4_Witness ==
    \E id \in DOMAIN txs :
        /\ txs[id].status = "Approved"
        /\ now <= txs[id].expires_at
        /\ now >= txs[id].timelock_until
        /\ SpentOn(Today) > 0
        /\ txs[id].amount <= LimitOn(Today)
        /\ SpentOn(Today) + txs[id].amount > LimitOn(Today)

(***************************************************************************)
(* C5: for every day key the amount recorded as spent is at most the       *)
(* limit in force for that day, whatever calls produced the spending.      *)
(***************************************************************************)
C5_SpentWithinLimit ==
    \A d \in DOMAIN daily_spending : daily_spending[d].spent <= daily_spending[d].limit

(***************************************************************************)
(* C6: no transaction with timelock_until > 0 is transferred and marked    *)
(* Executed at a time earlier than its timelock_until, by any operation.   *)
(***************************************************************************)
C6_NoExecutionBeforeTimelock ==
    \A id \in DOMAIN txs :
        txs[id].timelock_until > 0 =>
            \A i \in 1..Len(transfers[id]) : transfers[id][i] >= txs[id].timelock_until

C9_BatchOnlySignaturesExecuteMembers ==
    \A b \in DOMAIN batches :
        (/\ batches[b].status = "Executed"
         /\ \A id \in Members(b) : txs[id].signatures = << >>)
        => \A id \in Members(b) : txs[id].status = "Executed"

\* The order of the statuses a call stores.
StatusRank(status) ==
    CASE status = "Proposed" -> 1
      [] status = "Approved" -> 2
      [] status = "Executed" -> 3
      [] OTHER -> 0

StatusMovesForward(before, after) ==
    /\ StatusRank(after) >= StatusRank(before)
    /\ StatusRank(after) <= StatusRank(before) + 1
    /\ StatusRank(after) > 0

(***************************************************************************)
(* C15: statuses only move forward.  Every stored transaction and batch    *)
(* is Proposed, Approved or Executed (Rejected, Expired and Cancelled are  *)
(* never stored); over every step a stored transaction or batch stays      *)
(* stored and its status stays or moves from Proposed to Approved or from  *)
(* Approved to Executed; Executed is never left.                           *)
(***************************************************************************)
C15_StatusStep ==
    /\ \A id \in DOMAIN txs :
           /\ id \in DOMAIN txs'
           /\ StatusMovesForward(txs[id].status, txs'[id].status)
    /\ \A b \in DOMAIN batches :
           /\ b \in DOMAIN batches'
           /\ StatusMovesForward(batches[b].status, batches'[b].status)
    /\ \A id \in DOMAIN txs' \ DOMAIN txs : txs'[id].status = "Proposed"
    /\ \A b \in DOMAIN batches' \ DOMAIN batches : batches'[b].status = "Proposed"

C15_StatusesOnlyMoveForward ==
    /\ [][C15_StatusStep]_vars
    /\ [](/\ \A id \in DOMAIN txs : txs[id].status \in {"Proposed", "Approved", "Executed"}
          /\ \A b \in DOMAIN batches :
                 batches[b].status \in {"Proposed", "Approved", "Executed"})

\* A signed transaction has gone all the way to Executed, another one waits
\* Approved, and a batch has gone all the way to Executed.
C15_Witness ==
    /\ \E id \in DOMAIN txs : txs[id].status = "Executed" /\ txs[id].signatures /= << >>
    /\ \E id \in DOMAIN txs : txs[id].status = "Approved"
    /\ \E b \in DOMAIN batches :
           batches[b].status = "Executed" /\ batches[b].signatures /= << >>

(***************************************************************************)
(* SpecSign: the signer registry changes (add_signer, remove_signer,       *)
(* update_config of m) while one transaction collects signatures.          *)
(***************************************************************************)
Signers == {"S1", "S2", "S3"}

CfgSign == WalletConfig(2, 3, 3, 2, HalfDay, SECONDS_PER_DAY, 2, HalfDay)

CfgSignOne == WalletConfig(1, 3, 3, 2, HalfDay, SECONDS_PER_DAY, 2, HalfDay)

NextSign ==
    \/ initialize(ADMIN, CfgSign, << "S1", "S2", "S3" >>)
    \/ \E a \in Signers, w \in {1, 2} : add_signer(a, "Treasurer", w, TRUE)
    \/ \E a \in Signers : remove_signer(a, TRUE)
    \/ \E c \in {CfgSign, CfgSignOne} : update_config(c, TRUE)
    \/ propose_transaction("R1", "TOKEN", 1, "S1", 0)
    \/ \E id \in DOMAIN txs, a \in Signers : sign_transaction(id, a, TRUE)

SpecSign == Init /\ [][NextSign]_vars

\* The weight a registered, active identity carries in the registry.
WeightOf(a) ==
    LET entries == {i \in 1..Len(signers) : signers[i].address = a /\ signers[i].active}
    IN  IF entries = {} THEN 0 ELSE signers[CHOOSE i \in entries : TRUE].weight

RECURSIVE SumWeights(_)
SumWeights(as) ==
    IF as = {} THEN 0
    ELSE LET a == CHOOSE x \in as : TRUE
         IN  WeightOf(a) + SumWeights(as \ {a})

SignedWeight(id) ==
    SumWeights({txs[id].signatures[i] : i \in 1..Len(txs[id].signatures)})

(***************************************************************************)
(* C2: after every successful sign_transaction (the step that appends a    *)
(* signature) the transaction is Approved if and only if the summed weight *)
(* of the signers on its list that are registered and active at that       *)
(* moment is >= config.m; otherwise it stays Proposed.                     *)
(***************************************************************************)
C2_ApprovedIffWeightReached ==
    [][\A id \in DOMAIN txs :
          Len(txs'[id].signatures) > Len(txs[id].signatures) =>
              /\ txs'[id].status \in {"Proposed", "Approved"}
              /\ txs'[id].status = "Approved" <=> SignedWeight(id)' >= Unwrap(config).m
      ]_vars

\* Two signatures and still Proposed under m = 2: the first signer was
\* removed from the registry before the second, of weight 1, signed.
C2_Witness ==
    \E id \in DOMAIN txs :
        /\ Unwrap(config).m = 2
        /\ Len(txs[id].signatures) = 2
        /\ txs[id].status = "Proposed"
        /\ WeightOf(txs[id].signatures[1]) = 0
        /\ WeightOf(txs[id].signatures[2]) = 1

\* The registered active signers, as a set of addresses.
ActiveSigners == {signers[i].address : i \in {j \in 1..Len(signers) : signers[j].active}}

Registered(a) == \E i \in 1..Len(signers) : signers[i].address = a

(***************************************************************************)
(* C14: remove_signer succeeds only when the address is registered and the *)
(* number of registered active signers after the removal is still >= the   *)
(* current config.m; otherwise the call fails (and so leaves the registry  *)
(* as it was).  A successful call removes the entry of the named signer    *)
(* and no other.                                                           *)
(***************************************************************************)
C14_RemoveGuard ==
    Initialized =>
        \A a \in Signers \cup {"S4"} :
            ENABLED remove_signer(a, TRUE) <=>
                (Registered(a) /\ Cardinality(ActiveSigners \ {a}) >= Unwrap(config).m)

C14_RemoveStep ==
    Len(signers') < Len(signers) =>
        \E i \in 1..Len(signers) :
            /\ signers' = RemoveAt(signers, i)
            /\ ENABLED remove_signer(signers[i].address, TRUE)
            /\ \A k \in 1..Len(signers') : signers'[k].address /= signers[i].address
            /\ Cardinality(ActiveSigners') >= Unwrap(config).m

C14_RemoveKeepsThreshold ==
    /\ []C14_RemoveGuard
    /\ [][C14_RemoveStep]_vars

\* One of three signers has been removed under m = 2: removing another of
\* the two that are left is refused.
C14_Witness ==
    /\ Initialized
    /\ Unwrap(config).m = 2
    /\ Len(signers) = 2
    /\ Cardinality(ActiveSigners) = 2
    /\ \E a \in Signers : ~Registered(a)

(***************************************************************************)
(* SpecNonce: two signers propose transactions and batches with arbitrary  *)
(* nonces (stale, next, with gaps).                                        *)
(***************************************************************************)
CfgNonce == WalletConfig(1, 2, 3, 2, HalfDay, SECONDS_PER_DAY, 2, HalfDay)

Proposers == {"S1", "S2"}

Nonces == 0..MaxNonce

NextNonce ==
    \/ initialize(ADMIN, CfgNonce, << "S1", "S2" >>)
    \/ \E p \in Proposers, n \in Nonces :
           Proposals < MaxProposals /\ propose_transaction("R1", "TOKEN", 1, p, n)
    \/ \E l \in TxLists, p \in Proposers, n \in Nonces :
           Proposals < MaxProposals /\ propose_batch(l, p, n)

SpecNonce == Init /\ [][NextNonce]_vars

\* The nonce a stored transaction or batch was proposed with (a field of the id).
TxNonce(id) == id[5]

BatchNonce(b) == b[3]

(***************************************************************************)
(* C3: the nonces of an identity's successful proposals (transactions and  *)
(* batches share the counter) are strictly increasing.  Once A has         *)
(* consumed k, a proposal by A with a nonce <= k is rejected (and so       *)
(* changes nothing), a proposal with nonce k+1 is accepted, and every      *)
(* accepted proposal with nonce n sets last_used[A] to n; the stored       *)
(* nonce of an identity never decreases.                                   *)
(***************************************************************************)
C3_StaleNonceRejected ==
    \A a \in DOMAIN nonce_manager : \A n \in 0..nonce_manager[a] :
        /\ ~ENABLED propose_transaction("R1", "TOKEN", 1, a, n)
        /\ ~ENABLED propose_batch(<< >>, a, n)

C3_NextNonceAccepted ==
    \A a \in DOMAIN nonce_manager :
        /\ ENABLED propose_transaction("R1", "TOKEN", 1, a, nonce_manager[a] + 1)
        /\ ENABLED propose_batch(<< >>, a, nonce_manager[a] + 1)

C3_NonceStep ==
    /\ \A a \in DOMAIN nonce_manager :
           /\ a \in DOMAIN nonce_manager'
           /\ nonce_manager'[a] >= nonce_manager[a]
    /\ \A id \in DOMAIN txs' \ DOMAIN txs :
           LET a == txs'[id].proposer
           IN  /\ a \in DOMAIN nonce_manager => TxNonce(id) > nonce_manager[a]
               /\ nonce_manager' = (a :> TxNonce(id)) @@ nonce_manager
    /\ \A b \in DOMAIN batches' \ DOMAIN batches :
           LET a == batches'[b].proposer
           IN  /\ a \in DOMAIN nonce_manager => BatchNonce(b) > nonce_manager[a]
               /\ nonce_manager' = (a :> BatchNonce(b)) @@ nonce_manager
    /\ nonce_manager' /= nonce_manager =>
           (DOMAIN txs' /= DOMAIN txs \/ DOMAIN batches' /= DOMAIN batches)

C3_NoncesStrictlyIncrease ==
    /\ [](C3_StaleNonceRejected /\ C3_NextNonceAccepted)
    /\ [][C3_NonceStep]_vars

\* S1 has proposed a transaction with nonce k and then a batch with nonce
\* k+1, which is now its last used nonce.
C3_Witness ==
    \E id \in DOMAIN txs, b \in DOMAIN batches :
        /\ txs[id].proposer = "S1"
        /\ batches[b].proposer = "S1"
        /\ BatchNonce(b) = TxNonce(id) + 1
        /\ nonce_manager["S1"] = BatchNonce(b)

(***************************************************************************)
(* SpecFreeze: the admin (an account, or the wallet's own address) pauses,  *)
(* unpauses and freezes, anyone unfreezes, and a signer keeps proposing     *)
(* transactions and batches.                                               *)
(***************************************************************************)
\* The wallet's own address cannot authorize a call into the wallet: the wallet
\* never calls itself, and require_auth on a contract address passes only for
\* calls that contract makes.
Admins == {ADMIN, CONTRACT}

AdminAuth == IF admin = Some(CONTRACT) THEN {FALSE} ELSE BOOLEAN

NextFreeze ==
    \/ \E adm \in Admins : initialize(adm, CfgExec, << "S1" >>)
    \/ \E auth \in AdminAuth : pause(auth)
    \/ \E auth \in AdminAuth : unpause(auth)
    \/ \E duration \in {0, HalfDay}, auth \in AdminAuth : emergency_freeze(duration, auth)
    \/ \E auth \in AdminAuth : unfreeze(auth)
    \/ \E a \in Amounts : \E n \in NextNonces("S1") :
           Proposals < MaxProposals /\ propose_transaction("R1", "TOKEN", a, "S1", n)
    \/ \E l \in TxLists : \E n \in NextNonces("S1") :
           Proposals < MaxProposals /\ propose_batch(l, "S1", n)
    \/ Tick(HalfDay)

SpecFreeze == Init /\ [][NextFreeze]_vars

(***************************************************************************)
(* C10: while the wallet is frozen or paused every propose_transaction and *)
(* propose_batch call fails, so no step taken from such a state creates a  *)
(* transaction or a batch, tags a transaction with a batch id or consumes  *)
(* a nonce; this lasts until a call clears the flag.                       *)
(***************************************************************************)
C10_ProposeDisabled ==
    (paused \/ frozen) =>
        \A p \in {"S1"}, n \in 0..(MaxProposals + 1) :
            /\ \A a \in Amounts : ~ENABLED propose_transaction("R1", "TOKEN", a, p, n)
            /\ \A l \in TxLists : ~ENABLED propose_batch(l, p, n)

C10_NoProposalStep ==
    (paused \/ frozen) =>
        /\ DOMAIN txs' = DOMAIN txs
        /\ DOMAIN batches' = DOMAIN batches
        /\ \A id \in DOMAIN txs : txs'[id].batch_id = txs[id].batch_id
        /\ nonce_manager' = nonce_manager

C10_NoProposalWhileFrozenOrPaused ==
    /\ []C10_ProposeDisabled
    /\ [][C10_NoProposalStep]_vars

\* Frozen and not paused, with an earlier proposal stored, the proposer still
\* a registered signer and the advisory unfreeze time already reached.
C10_Witness ==
    /\ frozen
    /\ ~paused
    /\ txs /= EmptyMap
    /\ validate_signer(signers, "S1") = "Ok"
    /\ IsSome(unfreeze_time)
    /\ now >= Unwrap(unfreeze_time)
    /\ Proposals < MaxProposals

(***************************************************************************)
(* C12: after emergency_freeze(duration) at time t0 the wallet is frozen   *)
(* and the recorded unfreeze time is t0 + duration.  While frozen, an      *)
(* unfreeze call without the admin's authorization fails at every time     *)
(* before the recorded time and succeeds from that time on; a call with    *)
(* the admin's authorization succeeds at any time; a successful unfreeze   *)
(* leaves frozen false.                                                    *)
(***************************************************************************)
C12_FreezeRecordsTime ==
    Initialized =>
        \A duration \in {0, HalfDay} :
            /\ ENABLED (/\ emergency_freeze(duration, TRUE)
                        /\ frozen'
                        /\ unfreeze_time' = Some(now + duration))
            /\ ~ENABLED (/\ emergency_freeze(duration, TRUE)
                         /\ ~(frozen' /\ unfreeze_time' = Some(now + duration)))

C12_UnfreezeByTime ==
    frozen =>
        /\ IsSome(unfreeze_time)
        /\ now < Unwrap(unfreeze_time) => ~ENABLED unfreeze(FALSE)
        /\ now >= Unwrap(unfreeze_time) => ENABLED unfreeze(FALSE)
        /\ ENABLED unfreeze(TRUE)
        /\ \A auth \in BOOLEAN : ~ENABLED (unfreeze(auth) /\ frozen')

\* The recorded time of a frozen wallet is that of the freeze call.
C12_RecordedTimeStep ==
    (frozen' /\ unfreeze_time' /= unfreeze_time) =>
        \E duration \in {0, HalfDay} : unfreeze_time' = Some(now + duration)

C12_UnfreezeWindow ==
    /\ [](C12_FreezeRecordsTime /\ C12_UnfreezeByTime)
    /\ [][C12_RecordedTimeStep]_vars

\* Frozen at time 0 for half a day, with the recorded time just reached and
\* transactions stored: a call without the admin's authorization now unfreezes.
C12_Witness ==
    /\ frozen
    /\ unfreeze_time = Some(HalfDay)
    /\ now = HalfDay
    /\ txs /= EmptyMap

(***************************************************************************)
(* SpecConfig: the admin initializes and reconfigures the wallet with      *)
(* configurations of every kind while a signer proposes, signs and         *)
(* executes.                                                               *)
(***************************************************************************)
\* timelock_duration longer than transaction_expiry.
CfgLongLock == WalletConfig(1, 1, 3, 2, SECONDS_PER_DAY, HalfDay, 2, HalfDay)

\* m = 0: rejected by validate_config.
CfgNoThreshold == WalletConfig(0, 1, 3, 2, HalfDay, SECONDS_PER_DAY, 2, HalfDay)

\* transaction_expiry = 0.
CfgNoExpiry == WalletConfig(1, 1, 3, 2, HalfDay, 0, 2, HalfDay)

ConfigInputs == {CfgExec, CfgLongLock, CfgNoThreshold, CfgNoExpiry}

NextConfig ==
    \/ \E c \in ConfigInputs : initialize(ADMIN, c, << "S1" >>)
    \/ \E c \in ConfigInputs, auth \in BOOLEAN : update_config(c, auth)
    \/ \E a \in Amounts : \E n \in NextNonces("S1") :
           Proposals < MaxProposals /\ propose_transaction("R1", "TOKEN", a, "S1", n)
    \/ \E id \in DOMAIN txs : sign_transaction(id, "S1", TRUE)
    \/ \E id \in DOMAIN txs : execute_transaction(id, {})
    \/ Tick(HalfDay)

SpecConfig == Init /\ [][NextConfig]_vars

\* The checks of execute_transaction that depend on the time of the call.
CanExecuteAt(transaction, t) ==
    /\ execute_not_expired(transaction, t)
    /\ timelock_expired(transaction, t)

(***************************************************************************)
(* C7: under every accepted configuration an Approved transaction with a   *)
(* timelock has a time t >= timelock_until at which execute_transaction    *)
(* passes its expiry and timelock checks (a non-empty window of times      *)
(* contains its two ends, so these are the times tried).                   *)
(***************************************************************************)
C7_TimelockLeavesExecutionWindow ==
    \A id \in DOMAIN txs :
        (txs[id].status = "Approved" /\ txs[id].timelock_until > 0) =>
            \E t \in {txs[id].timelock_until, txs[id].expires_at} :
                t >= txs[id].timelock_until /\ CanExecuteAt(txs[id], t)

(***************************************************************************)
(* SpecFrozen: the admin freezes and unfreezes at any moment while a       *)
(* signer proposes, signs and executes timelocked transactions and         *)
(* batches of one transaction.                                             *)
(***************************************************************************)
NextFrozen ==
    \/ initialize(ADMIN, CfgExec, << "S1" >>)
    \/ emergency_freeze(HalfDay, TRUE)
    \/ unfreeze(TRUE)
    \/ \E n \in NextNonces("S1") :
           Proposals < MaxProposals /\ propose_transaction("R1", "TOKEN", 2, "S1", n)
    \/ \E id \in DOMAIN txs : sign_transaction(id, "S1", TRUE)
    \/ \E id \in DOMAIN txs : execute_transaction(id, {})
    \/ \E id \in DOMAIN txs : \E n \in NextNonces("S1") :
           Proposals < MaxProposals /\ propose_batch(<< id >>, "S1", n)
    \/ \E b \in DOMAIN batches : sign_batch(b, "S1", TRUE)
    \/ \E b \in DOMAIN batches : execute_batch(b, {})
    \/ Tick(HalfDay)

SpecFrozen == Init /\ [][NextFrozen]_vars

Statuses == {"Proposed", "Approved", "Executed", "Rejected", "Expired", "Cancelled"}

\* The outcome of each call in the current state: the empty set when the
\* call fails, otherwise what the call leaves behind.
SignTransactionOutcome(id, a) ==
    {st \in Statuses :
        ENABLED (/\ sign_transaction(id, a, TRUE)
                 /\ txs' = [txs EXCEPT ![id] =
                               [@ EXCEPT !.signatures = Append(@, a), !.status = st]])}

SignBatchOutcome(b, a) ==
    {st \in Statuses :
        ENABLED (/\ sign_batch(b, a, TRUE)
                 /\ batches' = [batches EXCEPT ![b] =
                                   [@ EXCEPT !.signatures = Append(@, a), !.status = st]])}

ExecuteTransactionOutcome(id) ==
    {spent \in 0..(2 * MaxProposals) :
        ENABLED (/\ execute_transaction(id, {})
                 /\ txs' = [txs EXCEPT ![id].status = "Executed"]
                 /\ transfers' = [transfers EXCEPT ![id] = Append(@, now)]
                 /\ daily_spending'[Today].spent = spent)}

ExecuteBatchOutcome(b) ==
    {executed \in SUBSET Members(b) :
        ENABLED (/\ execute_batch(b, {})
                 /\ batches' = [batches EXCEPT ![b].status = "Executed"]
                 /\ txs' = [id \in DOMAIN txs |->
                               IF id \in executed
                               THEN [txs[id] EXCEPT !.status = "Executed"]
                               ELSE txs[id]]
                 /\ transfers' = [id \in DOMAIN transfers |->
                                     IF id \in executed
                                     THEN Append(transfers[id], now)
                                     ELSE transfers[id]]
                 /\ SpentOn(Today)' = SpentOn(Today) + SumAmounts(executed))}

(***************************************************************************)
(* C11: the frozen flag does not affect signing or execution.  Two states  *)
(* that differ in the frozen flag (and the recorded unfreeze time) only    *)
(* are the two ends of a step that sets or clears the flag; in both, each  *)
(* of sign_transaction, sign_batch, execute_transaction and execute_batch  *)
(* has the same outcome: it fails in both or succeeds in both with the     *)
(* same result.  None of the four calls writes the flag.                   *)
(***************************************************************************)
C11_SameOutcome ==
    frozen' /= frozen =>
        /\ \A id \in DOMAIN txs :
               /\ SignTransactionOutcome(id, "S1")' = SignTransactionOutcome(id, "S1")
               /\ ExecuteTransactionOutcome(id)' = ExecuteTransactionOutcome(id)
        /\ \A b \in DOMAIN batches :
               /\ SignBatchOutcome(b, "S1")' = SignBatchOutcome(b, "S1")
               /\ ExecuteBatchOutcome(b)' = ExecuteBatchOutcome(b)

C11_FlagNotWritten ==
    (\/ \E id \in DOMAIN txs : txs'[id].signatures /= txs[id].signatures
     \/ \E id \in DOMAIN txs : txs'[id].status /= txs[id].status
     \/ \E b \in DOMAIN batches : batches'[b].signatures /= batches[b].signatures
     \/ \E b \in DOMAIN batches : batches'[b].status /= batches[b].status) =>
        /\ frozen' = frozen
        /\ unfreeze_time' = unfreeze_time

C11_FrozenDoesNotAffectSignOrExecute ==
    [][C11_SameOutcome /\ C11_FlagNotWritten]_vars

\* While the wallet is frozen a transaction has been signed and executed and
\* a batch has been signed and executed.
C11_Witness ==
    /\ frozen
    /\ \E id \in DOMAIN txs :
           /\ txs[id].status = "Executed"
           /\ transfers[id] = << now >>
           /\ ~IsSome(txs[id].batch_id)
    /\ \E b \in DOMAIN batches :
           /\ batches[b].status = "Executed"
           /\ \E id \in Members(b) : transfers[id] = << now >>
    /\ IsSome(unfreeze_time)
    /\ Unwrap(unfreeze_time) = now + HalfDay

\* 1 <= m <= n and every limit strictly positive.
ConfigWithinConstraints(c) ==
    /\ 1 <= c.m
    /\ c.m <= c.n
    /\ c.daily_spending_limit > 0
    /\ c.timelock_threshold > 0
    /\ c.timelock_duration > 0
    /\ c.transaction_expiry > 0
    /\ c.max_batch_size > 0
    /\ c.emergency_freeze_duration > 0

(***************************************************************************)
(* C13: initialize and update_config fail for every configuration that     *)
(* violates 1 <= m <= n or has a limit that is not strictly positive, so   *)
(* the stored configuration satisfies these constraints in every state.    *)
(***************************************************************************)
C13_ConfigAlwaysWithinConstraints ==
    /\ \A c \in ConfigInputs :
           ~ConfigWithinConstraints(c) =>
               /\ ~ENABLED initialize(ADMIN, c, << "S1" >>)
               /\ ~ENABLED update_config(c, TRUE)
    /\ IsSome(config) => ConfigWithinConstraints(Unwrap(config))

(***************************************************************************)
(* SpecBatch: a signer proposes and signs transactions and proposes        *)
(* batches of up to three ids, stored or not, with repeats.                *)
(***************************************************************************)
\* The id of a transaction that was never proposed.
NoTx == generate_transaction_id("R1", "TOKEN", 1, "S4", 0, 0)

BatchLists ==
    LET ids == DOMAIN txs \cup {NoTx}
    IN  {<< >>} \cup {<< a >> : a \in ids}
                \cup {<< a, b >> : a \in ids, b \in ids}
                \cup {<< a, b, c >> : a \in ids, b \in ids, c \in ids}

NextBatch ==
    \/ initialize(ADMIN, CfgExec, << "S1" >>)
    \/ \E a \in Amounts : \E n \in NextNonces("S1") :
           Proposals < MaxProposals /\ propose_transaction("R1", "TOKEN", a, "S1", n)
    \/ \E id \in DOMAIN txs : sign_transaction(id, "S1", TRUE)
    \/ \E l \in BatchLists : \E n \in NextNonces("S1") :
           Proposals < MaxProposals /\ propose_batch(l, "S1", n)

SpecBatch == Init /\ [][NextBatch]_vars

ListedIn(l) == {l[i] : i \in 1..Len(l)}

\* What the claim requires of a list offered to propose_batch.
BatchListAcceptable(l) ==
    /\ Len(l) <= Unwrap(config).max_batch_size
    /\ \A id \in ListedIn(l) :
           /\ id \in DOMAIN txs
           /\ txs[id].status = "Proposed"
           /\ txs[id].batch_id = None

(***************************************************************************)
(* C16: every transaction id is referenced by at most one batch.  A        *)
(* propose_batch call succeeds only if every listed transaction exists,    *)
(* is Proposed and carries no batch id and the list is no longer than      *)
(* max_batch_size (any other call fails and so changes nothing); the step  *)
(* that stores the new batch sets the batch_id of every listed transaction *)
(* to the new batch's id and changes nothing else of the transactions and  *)
(* the other batches.                                                      *)
(***************************************************************************)
C16_AtMostOneBatch ==
    \A id \in DOMAIN txs :
        /\ Cardinality({b \in DOMAIN batches : id \in Members(b)}) <= 1
        /\ \A b \in DOMAIN batches : id \in Members(b) <=> txs[id].batch_id = Some(b)

C16_ProposeBatchGuard ==
    Initialized =>
        \A l \in BatchLists : \A n \in NextNonces("S1") :
            ENABLED propose_batch(l, "S1", n) => BatchListAcceptable(l)

C16_ProposeBatchStep ==
    \A b \in DOMAIN batches' \ DOMAIN batches :
        /\ BatchListAcceptable(batches'[b].transactions)
        /\ batches'[b].id = b
        /\ DOMAIN txs' = DOMAIN txs
        /\ \A id \in DOMAIN txs :
               txs'[id] = IF id \in ListedIn(batches'[b].transactions)
                          THEN [txs[id] EXCEPT !.batch_id = Some(b)]
                          ELSE txs[id]
        /\ \A other \in DOMAIN batches : batches'[other] = batches[other]

C16_BatchMembership ==
    /\ [](C16_AtMostOneBatch /\ C16_ProposeBatchGuard)
    /\ [][C16_ProposeBatchStep]_vars

\* A batch of two ids holds a transaction that was signed up to Approved
\* after the batch was proposed, while another transaction is in no batch.
C16_Witness ==
    \E b \in DOMAIN batches :
        /\ Len(batches[b].transactions) = 2
        /\ \E id \in DOMAIN txs : txs[id].batch_id = Some(b) /\ txs[id].status = "Approved"
        /\ \E id \in DOMAIN txs : txs[id].batch_id = None

(***************************************************************************)
(* SpecExpiry: timelocked transactions that expire a quarter of a day      *)
(* after their proposal, the moment their timelock ends, are proposed,     *)
(* signed, batched and executed while the clock advances by a quarter of   *)
(* a day and the admin pauses and freezes.                                 *)
(***************************************************************************)
QuarterDay == HalfDay \div 2

CfgExpiry == WalletConfig(1, 1, 3, 2, QuarterDay, QuarterDay, 2, HalfDay)

NextExpiry ==
    \/ initialize(ADMIN, CfgExpiry, << "S1" >>)
    \/ pause(TRUE)
    \/ unpause(TRUE)
    \/ emergency_freeze(0, TRUE)
    \/ unfreeze(TRUE)
    \/ \E n \in NextNonces("S1") :
           Proposals < MaxProposals /\ propose_transaction("R1", "TOKEN", 2, "S1", n)
    \/ \E id \in DOMAIN txs : sign_transaction(id, "S1", TRUE)
    \/ \E id \in DOMAIN txs : execute_transaction(id, {})
    \/ \E id \in DOMAIN txs : \E n \in NextNonces("S1") :
           Proposals < MaxProposals /\ propose_batch(<< id >>, "S1", n)
    \/ \E b \in DOMAIN batches : sign_batch(b, "S1", TRUE)
    \/ \E b \in DOMAIN batches : execute_batch(b, {})
    \/ Tick(QuarterDay)

SpecExpiry == Init /\ [][NextExpiry]_vars

\* The preconditions the claims name, read off the state.
NonceUsed(p, n) == p \in DOMAIN nonce_manager /\ n <= nonce_manager[p]

Expired(record) == now > record.expires_at

Timelocked(transaction) ==
    transaction.timelock_until > 0 /\ now < transaction.timelock_until

OverDailyLimit(transaction) == SpentOn(Today) + transaction.amount > LimitOn(Today)

(***************************************************************************)
(* C17: every call is all-or-nothing.  A call with a failed precondition   *)
(* fails as a whole, so the state after it is the state before it:         *)
(* propose_transaction and propose_batch when the wallet is paused or      *)
(* frozen, the nonce is stale or the proposer is no active signer;         *)
(* sign_transaction and sign_batch on a wrong status, after expiry, by a   *)
(* non-signer, without the signer's authorization or for a second          *)
(* signature; execute_transaction on a wrong status, after expiry, before  *)
(* the timelock, over the daily limit or when the token transfer fails;    *)
(* execute_batch on a wrong status, after expiry or when a member's        *)
(* transfer fails.  A call that succeeds commits all of its writes         *)
(* together: a nonce is consumed exactly when a record is stored, and a    *)
(* transfer is made exactly when the transaction moves from Approved to    *)
(* Executed and its amount is added to the day's spending.                 *)
(***************************************************************************)
C17_ProposeRejected ==
    Initialized =>
        \A p \in {"S1", "S4"}, n \in 0..MaxProposals :
            (paused \/ frozen \/ NonceUsed(p, n) \/ p \notin ActiveSigners) =>
                /\ ~ENABLED propose_transaction("R1", "TOKEN", 2, p, n)
                /\ ~ENABLED propose_batch(<< >>, p, n)

C17_SignRejected ==
    /\ \A id \in DOMAIN txs, a \in {"S1", "S4"} :
           /\ (\/ txs[id].status /= "Proposed"
               \/ Expired(txs[id])
               \/ a \notin ActiveSigners
               \/ Contains(txs[id].signatures, a)) => ~ENABLED sign_transaction(id, a, TRUE)
           /\ ~ENABLED sign_transaction(id, a, FALSE)
    /\ \A b \in DOMAIN batches, a \in {"S1", "S4"} :
           /\ (\/ batches[b].status /= "Proposed"
               \/ Expired(batches[b])
               \/ a \notin ActiveSigners
               \/ Contains(batches[b].signatures, a)) => ~ENABLED sign_batch(b, a, TRUE)
           /\ ~ENABLED sign_batch(b, a, FALSE)

C17_ExecuteRejected ==
    /\ \A id \in DOMAIN txs :
           /\ (\/ txs[id].status /= "Approved"
               \/ Expired(txs[id])
               \/ Timelocked(txs[id])
               \/ OverDailyLimit(txs[id])) => ~ENABLED execute_transaction(id, {})
           /\ ~ENABLED execute_transaction(id, {id})
    /\ \A b \in DOMAIN batches :
           /\ (batches[b].status /= "Approved" \/ Expired(batches[b])) =>
                  ~ENABLED execute_batch(b, {})
           /\ (\E id \in Members(b) : txs[id].status = "Approved") =>
                  ~ENABLED execute_batch(b, Members(b))

C17_WholeStep ==
    /\ nonce_manager' /= nonce_manager <=>
           (DOMAIN txs' /= DOMAIN txs \/ DOMAIN batches' /= DOMAIN batches)
    /\ \A id \in DOMAIN txs :
           /\ transfers'[id] /= transfers[id] <=>
                  (txs[id].status = "Approved" /\ txs'[id].status = "Executed")
           /\ transfers'[id] /= transfers[id] =>
                  /\ transfers'[id] = Append(transfers[id], now)
                  /\ SpentOn(Today)' >= SpentOn(Today) + txs[id].amount

C17_AllOrNothing ==
    /\ [](C17_ProposeRejected /\ C17_SignRejected /\ C17_ExecuteRejected)
    /\ [][C17_WholeStep]_vars

\* The wallet is paused; one transaction was executed today and a second,
\* Approved, past its timelock and unexpired, no longer fits under the limit.
C17_Witness ==
    /\ paused
    /\ \E id \in DOMAIN txs : txs[id].status = "Executed"
    /\ \E id \in DOMAIN txs :
           /\ txs[id].status = "Approved"
           /\ ~Expired(txs[id])
           /\ ~Timelocked(txs[id])
           /\ OverDailyLimit(txs[id])

(***************************************************************************)
(* SpecAuth: every call arrives with or without the authorization of the   *)
(* identity it is made for (the admin, or the proposer).                   *)
(***************************************************************************)
\* A propose call as the host delivers it; auth: the proposer authorized the
\* call.  Neither propose_transaction nor propose_batch asks for it.
invoke_propose_transaction(to, token, amount, proposer, nonce, auth) ==
    propose_transaction(to, token, amount, proposer, nonce)

invoke_propose_batch(transactions, proposer, nonce, auth) ==
    propose_batch(transactions, proposer, nonce)

NextAuth ==
    \/ initialize(ADMIN, CfgNonce, << "S1", "S2" >>)
    \/ \E w \in {0, 1}, auth \in BOOLEAN : add_signer("S3", "Treasurer", w, auth)
    \/ \E a \in Signers, auth \in BOOLEAN : remove_signer(a, auth)
    \/ \E auth \in BOOLEAN : pause(auth)
    \/ \E auth \in BOOLEAN : unpause(auth)
    \/ \E auth \in BOOLEAN : emergency_freeze(0, auth)
    \/ \E auth \in BOOLEAN : unfreeze(auth)
    \/ \E c \in {CfgNonce, CfgSignOne}, auth \in BOOLEAN : update_config(c, auth)
    \/ \E p \in Proposers, auth \in BOOLEAN : \E n \in NextNonces(p) :
           /\ Proposals < MaxProposals
           /\ invoke_propose_transaction("R1", "TOKEN", 1, p, n, auth)
    \/ \E p \in Proposers, auth \in BOOLEAN : \E n \in NextNonces(p) :
           /\ Proposals < MaxProposals
           /\ invoke_propose_batch(<< >>, p, n, auth)

SpecAuth == Init /\ [][NextAuth]_vars

(***************************************************************************)
(* C18: propose_transaction and propose_batch succeed (storing the record  *)
(* and consuming the proposer's nonce) only if the proposer has authorized *)
(* the call: a call without the proposer's authorization fails.            *)
(***************************************************************************)
C18_ProposalNeedsProposerAuth ==
    \A p \in Proposers : \A n \in NextNonces(p) :
        /\ ~ENABLED invoke_propose_transaction("R1", "TOKEN", 1, p, n, FALSE)
        /\ ~ENABLED invoke_propose_batch(<< >>, p, n, FALSE)

(***************************************************************************)
(* C19: add_signer, remove_signer, emergency_freeze, pause, unpause and    *)
(* update_config fail without the admin's authorization, whatever their    *)
(* arguments, so such a call leaves the registry, the config and the       *)
(* paused and frozen flags as they were; with the authorization each of    *)
(* them is accepted.                                                       *)
(***************************************************************************)
C19_AdminCallsNeedAdminAuth ==
    /\ \A a \in Signers \cup {"S4"} :
           /\ \A w \in {0, 1, 2} : ~ENABLED add_signer(a, "Treasurer", w, FALSE)
           /\ ~ENABLED remove_signer(a, FALSE)
    /\ \A duration \in {0, HalfDay} : ~ENABLED emergency_freeze(duration, FALSE)
    /\ ~ENABLED pause(FALSE)
    /\ ~ENABLED unpause(FALSE)
    /\ \A c \in {CfgNonce, CfgSignOne, CfgExec} : ~ENABLED update_config(c, FALSE)
    /\ Initialized =>
           /\ ENABLED add_signer("S4", "Treasurer", 1, TRUE)
           /\ ENABLED emergency_freeze(0, TRUE)
           /\ ENABLED pause(TRUE)
           /\ ENABLED unpause(TRUE)
           /\ ENABLED update_config(CfgSignOne, TRUE)
           /\ Len(signers) > Unwrap(config).m => ENABLED remove_signer(signers[1].address, TRUE)

\* The admin has added S3, removed a signer, paused, frozen and put another
\* configuration in force.
C19_Witness ==
    /\ paused
    /\ frozen
    /\ config = Some(CfgSignOne)
    /\ Registered("S3")
    /\ \E a \in Proposers : ~Registered(a)

(***************************************************************************)
(* C20: a transaction is unusable after its expires_at.  At any time       *)
(* now > expires_at no call appends a signature to it or moves it to       *)
(* Executed: sign_transaction and execute_transaction fail, execute_batch  *)
(* of a batch that contains it does not execute it, and no transfer of it  *)
(* is ever made after expires_at; at now = expires_at signing and          *)
(* executing are still allowed.                                            *)
(***************************************************************************)
C20_UnusableAfterExpiry ==
    \A id \in DOMAIN txs :
        /\ \A i \in 1..Len(transfers[id]) : transfers[id][i] <= txs[id].expires_at
        /\ Expired(txs[id]) =>
               /\ ~ENABLED sign_transaction(id, "S1", TRUE)
               /\ ~ENABLED execute_transaction(id, {})
               /\ \A b \in DOMAIN batches :
                      ~ENABLED (execute_batch(b, {}) /\ txs'[id] /= txs[id])
        /\ now = txs[id].expires_at =>
               /\ (txs[id].status = "Proposed" /\ ~Contains(txs[id].signatures, "S1")) =>
                      ENABLED sign_transaction(id, "S1", TRUE)
               /\ (/\ txs[id].status = "Approved"
                   /\ ~Timelocked(txs[id])
                   /\ ~OverDailyLimit(txs[id])) => ENABLED execute_transaction(id, {})

(***************************************************************************)
(* C21: approval is a function of the current registry.  In every state    *)
(* every Approved transaction has, on its signature list, currently        *)
(* registered active signers whose summed weight is >= the current         *)
(* config.m, so execute_transaction never executes a transaction whose     *)
(* signers' current weight is below m.                                     *)
(***************************************************************************)
C21_ApprovedHasCurrentWeight ==
    \A id \in DOMAIN txs :
        /\ txs[id].status = "Approved" => SignedWeight(id) >= Unwrap(config).m
        /\ ENABLED execute_transaction(id, {}) => SignedWeight(id) >= Unwrap(config).m

(***************************************************************************)
(* C22: every signer in the registry has weight >= 1, whether added at     *)
(* initialize or through add_signer (an add_signer call with weight 0      *)
(* fails), so the signature of an active signer always adds to the         *)
(* accumulated weight.                                                     *)
(***************************************************************************)
C22_WeightsAtLeastOne ==
    /\ \A i \in 1..Len(signers) : signers[i].weight >= 1
    /\ \A a \in ActiveSigners : WeightOf(a) > 0
    /\ \A a \in Signers \cup {"S4"} : ~ENABLED add_signer(a, "Treasurer", 0, TRUE)

(***************************************************************************)
(* SpecRace: the registry and the threshold are set up first; from the     *)
(* proposal of the transaction on they are fixed and the signers call      *)
(* sign_transaction in any order, each call running to completion before   *)
(* the next (the host runs one call at a time).                            *)
(***************************************************************************)
CfgSignThree == WalletConfig(3, 3, 3, 2, HalfDay, SECONDS_PER_DAY, 2, HalfDay)

NextRace ==
    \/ initialize(ADMIN, CfgSign, << "S1", "S2" >>)
    \/ \E w \in {1, 2} : txs = EmptyMap /\ add_signer("S3", "Treasurer", w, TRUE)
    \/ \E c \in {CfgSign, CfgSignThree} : txs = EmptyMap /\ update_config(c, TRUE)
    \/ \E a \in Amounts :
           txs = EmptyMap /\ propose_transaction("R1", "TOKEN", a, "S1", 0)
    \/ \E id \in DOMAIN txs, a \in Signers : sign_transaction(id, a, TRUE)

SpecRace == Init /\ [][NextRace]_vars

\* The weight committed so far, and the weight committed before the last call.
CommittedBeforeLast(id) ==
    SumWeights({txs[id].signatures[i] : i \in 1..(Len(txs[id].signatures) - 1)})

(***************************************************************************)
(* C23: signers racing to the threshold see a consistent view.  With the   *)
(* registry fixed, the transaction is Approved as soon as, and never       *)
(* before, the weight of the committed calls reaches m; calls arriving     *)
(* after approval fail; and for every set of distinct signers that have    *)
(* all made their call (each is on the list or is refused), the final      *)
(* status is the same whatever the order was: Approved if and only if the  *)
(* weight of the whole set is >= m.                                        *)
(***************************************************************************)
C23_ConsistentView ==
    \A id \in DOMAIN txs :
        LET signed == {txs[id].signatures[i] : i \in 1..Len(txs[id].signatures)}
            m == Unwrap(config).m
        IN  /\ txs[id].status = "Approved" <=> SumWeights(signed) >= m
            /\ txs[id].status = "Approved" =>
                   /\ CommittedBeforeLast(id) < m
                   /\ \A a \in Signers : ~ENABLED sign_transaction(id, a, TRUE)
            /\ \A callers \in SUBSET Signers :
                   (/\ signed \subseteq callers
                    /\ callers \subseteq ActiveSigners
                    /\ \A a \in callers \ signed : ~ENABLED sign_transaction(id, a, TRUE))
                   => (txs[id].status = "Approved" <=> SumWeights(callers) >= m)

\* Under m = 3 the signer of weight 2 and one of weight 1 have signed, in
\* this order, and the call of the third signer is refused.
C23_Witness ==
    \E id \in DOMAIN txs :
        /\ Unwrap(config).m = 3
        /\ Len(txs[id].signatures) = 2
        /\ WeightOf(txs[id].signatures[1]) = 2
        /\ txs[id].status = "Approved"
        /\ Cardinality(ActiveSigners) = 3

(***************************************************************************)
(* SpecBatchSign: one transaction and one batch that holds it collect      *)
(* signatures from three signers while the admin changes the registry and  *)
(* the threshold.                                                          *)
(***************************************************************************)
NextBatchSign ==
    \/ initialize(ADMIN, CfgSign, << "S1", "S2", "S3" >>)
    \/ \E a \in Signers : add_signer(a, "Treasurer", 2, TRUE)
    \/ \E a \in Signers : remove_signer(a, TRUE)
    \/ \E c \in {CfgSign, CfgSignOne} : update_config(c, TRUE)
    \/ txs = EmptyMap /\ propose_transaction("R1", "TOKEN", 1, "S1", 0)
    \/ \E id \in DOMAIN txs :
           batches = EmptyMap /\ propose_batch(<< id >>, "S1", 1)
    \/ \E id \in DOMAIN txs, a \in Signers : sign_transaction(id, a, TRUE)
    \/ \E b \in DOMAIN batches, a \in Signers : sign_batch(b, a, TRUE)

SpecBatchSign == Init /\ [][NextBatchSign]_vars

BatchSignedWeight(b) ==
    SumWeights({batches[b].signatures[i] : i \in 1..Len(batches[b].signatures)})

(***************************************************************************)
(* C24: after every successful sign_batch (the step that appends a         *)
(* signature to a batch) the batch is Approved if and only if the summed   *)
(* weight of the currently registered active signers on the batch's own    *)
(* signature list is >= config.m, and Proposed otherwise; the signatures   *)
(* on member transactions do not count.                                    *)
(***************************************************************************)
C24_BatchApprovedIffWeightReached ==
    [][\A b \in DOMAIN batches :
          Len(batches'[b].signatures) > Len(batches[b].signatures) =>
              /\ batches'[b].status \in {"Proposed", "Approved"}
              /\ batches'[b].status = "Approved" <=>
                     BatchSignedWeight(b)' >= Unwrap(config).m
      ]_vars

\* The member transaction is Approved with two signatures while its batch,
\* signed once under m = 2, is still Proposed.
C24_Witness ==
    \E b \in DOMAIN batches :
        /\ Unwrap(config).m = 2
        /\ Len(batches[b].signatures) = 1
        /\ batches[b].status = "Proposed"
        /\ \A id \in Members(b) :
               txs[id].status = "Approved" /\ Len(txs[id].signatures) = 2

(***************************************************************************)
(* C25: sign_batch leaves every transaction record (signatures, status,    *)
(* batch_id) unchanged and sign_transaction leaves every batch record      *)
(* unchanged.                                                              *)
(***************************************************************************)
C25_SignCallsFrame ==
    /\ \A b \in DOMAIN batches, a \in Signers :
           ~ENABLED (sign_batch(b, a, TRUE) /\ txs' /= txs)
    /\ \A id \in DOMAIN txs, a \in Signers :
           ~ENABLED (sign_transaction(id, a, TRUE) /\ batches' /= batches)

C25_SignStepFrame ==
    /\ (\E b \in DOMAIN batches : batches'[b].signatures /= batches[b].signatures)
           => txs' = txs
    /\ (\E id \in DOMAIN txs : txs'[id].signatures /= txs[id].signatures)
           => batches' = batches

C25_SigningGatesIndependent ==
    /\ []C25_SignCallsFrame
    /\ [][C25_SignStepFrame]_vars

\* The batch has been signed up to Approved while its member transaction is
\* still Proposed without a signature.
C25_Witness ==
    \E b \in DOMAIN batches :
        /\ batches[b].status = "Approved"
        /\ Members(b) /= {}
        /\ \A id \in Members(b) :
               txs[id].status = "Proposed" /\ txs[id].signatures = << >>

(***************************************************************************)
(* C26: sign_transaction succeeds only if the transaction exists with      *)
(* status Proposed, the signer authorized the call, is registered and      *)
(* active and is not yet on the signature list; a successful call appends  *)
(* exactly that signer.  No signature list of a transaction or a batch     *)
(* holds an identity twice, and every identity was a registered active     *)
(* signer at the moment it was appended.                                   *)
(***************************************************************************)
NoRepeat(list) == \A i, j \in 1..Len(list) : list[i] = list[j] => i = j

C26_SignGuard ==
    \A id \in DOMAIN txs \cup {NoTx}, a \in Signers, auth \in BOOLEAN :
        ENABLED sign_transaction(id, a, auth) =>
            /\ id \in DOMAIN txs
            /\ txs[id].status = "Proposed"
            /\ auth
            /\ a \in ActiveSigners
            /\ ~Contains(txs[id].signatures, a)

C26_NoRepeatedSignature ==
    /\ \A id \in DOMAIN txs : NoRepeat(txs[id].signatures)
    /\ \A b \in DOMAIN batches : NoRepeat(batches[b].signatures)

C26_AppendStep ==
    /\ \A id \in DOMAIN txs :
           txs'[id].signatures /= txs[id].signatures =>
               \E a \in ActiveSigners :
                   /\ ~Contains(txs[id].signatures, a)
                   /\ txs[id].status = "Proposed"
                   /\ txs'[id].signatures = Append(txs[id].signatures, a)
    /\ \A b \in DOMAIN batches :
           batches'[b].signatures /= batches[b].signatures =>
               \E a \in ActiveSigners :
                   /\ ~Contains(batches[b].signatures, a)
                   /\ batches'[b].signatures = Append(batches[b].signatures, a)

C26_OneSignaturePerActiveSigner ==
    /\ [](C26_SignGuard /\ C26_NoRepeatedSignature)
    /\ [][C26_AppendStep]_vars

\* A transaction that is still open for signing has one signature, and an
\* address that has not signed it is no longer in the registry.
C26_Witness ==
    \E id \in DOMAIN txs :
        /\ txs[id].status = "Proposed"
        /\ Len(txs[id].signatures) = 1
        /\ \E a \in Signers : ~Registered(a) /\ ~Contains(txs[id].signatures, a)
        /\ \E b \in DOMAIN batches : Len(batches[b].signatures) >= 1

(***************************************************************************)
(* SpecPropose: proposals of amounts below, at and above the timelock      *)
(* threshold, made at different times and under different configurations.  *)
(***************************************************************************)
ProposeAmounts == {1, 2, 3}

NextPropose ==
    \/ \E c \in {CfgExec, CfgLongLock} : initialize(ADMIN, c, << "S1" >>)
    \/ \E c \in {CfgExec, CfgLongLock, CfgExpiry} : update_config(c, TRUE)
    \/ \E a \in ProposeAmounts : \E n \in NextNonces("S1") :
           Proposals < MaxProposals /\ propose_transaction("R1", "TOKEN", a, "S1", n)
    \/ Tick(HalfDay)

SpecPropose == Init /\ [][NextPropose]_vars

(***************************************************************************)
(* C27: a successful propose_transaction at time now stores a transaction  *)
(* with status Proposed, no signature, no batch id, created_at = now,      *)
(* expires_at = now + transaction_expiry and timelock_until = now +        *)
(* timelock_duration when amount >= timelock_threshold, else 0.            *)
(***************************************************************************)
C27_StoredProposal(transaction, c, t) ==
    /\ transaction.status = "Proposed"
    /\ transaction.signatures = << >>
    /\ transaction.batch_id = None
    /\ transaction.created_at = t
    /\ transaction.expires_at = t + c.transaction_expiry
    /\ transaction.amount >= c.timelock_threshold
           => transaction.timelock_until = t + c.timelock_duration
    /\ ~(transaction.amount >= c.timelock_threshold)
           => transaction.timelock_until = 0

C27_ProposalAsStored ==
    [][\A id \in DOMAIN txs' :
           (id \notin DOMAIN txs \/ txs'[id] /= txs[id])
               => C27_StoredProposal(txs'[id], Unwrap(config), now)]_vars

\* Proposals made after the clock has advanced: one exactly at the threshold
\* and timelocked, one below it and not timelocked.
C27_Witness ==
    /\ \E id \in DOMAIN txs :
           /\ txs[id].amount = Unwrap(config).timelock_threshold
           /\ txs[id].created_at > 0
           /\ txs[id].timelock_until > txs[id].created_at
    /\ \E id \in DOMAIN txs :
           /\ txs[id].amount < Unwrap(config).timelock_threshold
           /\ txs[id].timelock_until = 0

(***************************************************************************)
(* SpecDaily: executions against the daily limit while the clock runs from *)
(* one day into the next.                                                  *)
(***************************************************************************)
\* The ledger clock reaches the start of the next day.
TickToNextDay ==
    /\ get_today_timestamp(now) + SECONDS_PER_DAY <= MaxTicks * SECONDS_PER_DAY
    /\ now' = get_today_timestamp(now) + SECONDS_PER_DAY
    /\ UNCHANGED << admin, config, paused, frozen, unfreeze_time, signers,
                    nonce_manager, txs, batches, timelock_queue, daily_spending,
                    transfers >>

NextDaily ==
    \/ initialize(ADMIN, CfgExec, << "S1" >>)
    \/ \E a \in Amounts : \E n \in NextNonces("S1") :
           Proposals < MaxProposals /\ propose_transaction("R1", "TOKEN", a, "S1", n)
    \/ \E id \in DOMAIN txs : sign_transaction(id, "S1", TRUE)
    \/ \E id \in DOMAIN txs : execute_transaction(id, {})
    \/ \E id \in DOMAIN txs : \E n \in NextNonces("S1") :
           Proposals < MaxProposals /\ propose_batch(<< id >>, "S1", n)
    \/ \E b \in DOMAIN batches : sign_batch(b, "S1", TRUE)
    \/ \E b \in DOMAIN batches : execute_batch(b, {})
    \/ Tick(HalfDay)
    \/ TickToNextDay

SpecDaily == Init /\ [][NextDaily]_vars

(***************************************************************************)
(* C28: spending is recorded under the day key floor(now/86400)*86400 and  *)
(* counts against that day only; a day without a record has zero spent, so *)
(* an Approved transaction that execute_transaction refused for the daily  *)
(* limit on one day can be executed when the next day begins, provided its *)
(* amount alone is within the limit and it is unexpired and past its       *)
(* timelock.                                                               *)
(***************************************************************************)
\* execute_transaction(id) is refused for the daily limit at this moment.
RefusedForLimit(id) ==
    /\ txs[id].status = "Approved"
    /\ CanExecuteAt(txs[id], now)
    /\ SpentOn(Today) + txs[id].amount > LimitOn(Today)
    /\ ~ENABLED execute_transaction(id, {})

\* Records are written under the current day's key only, and no day ahead
\* of the clock has one.
C28_RecordedToday ==
    /\ \A d \in DOMAIN daily_spending' :
           d /= Today => d \in DOMAIN daily_spending
                         /\ daily_spending'[d] = daily_spending[d]
    /\ \A d \in DOMAIN daily_spending' :
           d = (d \div SECONDS_PER_DAY) * SECONDS_PER_DAY /\ d <= Today

\* A day without a record: the amount alone decides.
C28_FreshDay ==
    Today \notin DOMAIN daily_spending =>
        \A id \in DOMAIN txs :
            /\ txs[id].status = "Approved"
            /\ CanExecuteAt(txs[id], now)
            /\ txs[id].amount <= Unwrap(config).daily_spending_limit
            => ENABLED execute_transaction(id, {})

\* The step into the next day.
C28_NextDayStep ==
    Today' > Today =>
        \A id \in DOMAIN txs :
            /\ RefusedForLimit(id)
            /\ CanExecuteAt(txs[id], now')
            /\ txs[id].amount <= Unwrap(config).daily_spending_limit
            => (ENABLED execute_transaction(id, {}))'

C28_DailyBuckets ==
    /\ []C28_FreshDay
    /\ [][C28_RecordedToday /\ C28_NextDayStep]_vars

\* A transaction proposed on the first day, whose amount did not fit into
\* what was left of that day's limit, has been executed on the second day.
C28_Witness ==
    \E id \in DOMAIN txs :
        /\ txs[id].status = "Executed"
        /\ txs[id].created_at < SECONDS_PER_DAY
        /\ transfers[id] = << SECONDS_PER_DAY >>
        /\ SpentOn(0) + txs[id].amount > LimitOn(0)
        /\ SpentOn(SECONDS_PER_DAY) = txs[id].amount

(***************************************************************************)
(* SpecRegistry: the registry calls, with initial signer lists that may    *)
(* repeat an address.                                                      *)
(***************************************************************************)
InitialSignerLists ==
    {<< >>} \cup {<< a >> : a \in Signers}
            \cup {<< a, b >> : a \in Signers, b \in Signers}
            \cup {<< a, b, c >> : a \in Signers, b \in Signers, c \in Signers}

Roles == {"Owner", "Treasurer"}

NextRegistry ==
    \/ \E l \in InitialSignerLists : initialize(ADMIN, CfgSignOne, l)
    \/ \E a \in Signers, r \in Roles, w \in {1, 2}, auth \in BOOLEAN :
           add_signer(a, r, w, auth)
    \/ \E a \in Signers, auth \in BOOLEAN : remove_signer(a, auth)

SpecRegistry == Init /\ [][NextRegistry]_vars

(***************************************************************************)
(* C29: the registry never holds two entries with the same address:        *)
(* add_signer of a registered address fails, and initialize with a list    *)
(* that repeats an address fails as a whole, the wallet staying            *)
(* uninitialized.                                                          *)
(***************************************************************************)
C29_NoTwoEntries ==
    \A i, j \in 1..Len(signers) : signers[i].address = signers[j].address => i = j

C29_AddRejected ==
    \A a \in Signers, r \in Roles, w \in {1, 2} :
        Registered(a) => ~ENABLED add_signer(a, r, w, TRUE)

C29_InitializeRejected ==
    \A l \in InitialSignerLists :
        ~NoRepeat(l) => ~ENABLED initialize(ADMIN, CfgSignOne, l)

C29_InitializeStep ==
    (~Initialized /\ Initialized') =>
        \E l \in InitialSignerLists :
            /\ NoRepeat(l)
            /\ Len(signers') = Len(l)
            /\ \A i \in 1..Len(l) : signers'[i].address = l[i]

C29_RegistryHasNoDuplicate ==
    /\ [](C29_NoTwoEntries /\ C29_AddRejected /\ C29_InitializeRejected)
    /\ [][C29_InitializeStep]_vars

\* The registry is full: its first entry comes from initialize, its last
\* one from add_signer.
C29_Witness ==
    /\ Len(signers) = 3
    /\ signers[1].weight = 1 /\ signers[1].role = "Owner"
    /\ signers[3].address = "S1" /\ signers[3].weight = 2

(***************************************************************************)
(* SpecAtomic: executions during which the token contract may reject the   *)
(* transfer of any set of transactions.                                    *)
(***************************************************************************)
TransferFailures == SUBSET DOMAIN txs

NextAtomic ==
    \/ initialize(ADMIN, CfgExec, << "S1" >>)
    \/ \E a \in Amounts : \E n \in NextNonces("S1") :
           Proposals < MaxProposals /\ propose_transaction("R1", "TOKEN", a, "S1", n)
    \/ \E id \in DOMAIN txs : sign_transaction(id, "S1", TRUE)
    \/ \E id \in DOMAIN txs, fails \in TransferFailures :
           execute_transaction(id, fails)
    \/ \E l \in TxLists : \E n \in NextNonces("S1") :
           Proposals < MaxProposals /\ propose_batch(l, "S1", n)
    \/ \E b \in DOMAIN batches : sign_batch(b, "S1", TRUE)
    \/ \E b \in DOMAIN batches, fails \in TransferFailures :
           execute_batch(b, fails)

SpecAtomic == Init /\ [][NextAtomic]_vars

(***************************************************************************)
(* C30: execute_batch is atomic with respect to transfer failure: when the *)
(* transfer of any Approved member aborts, the call aborts, so that no     *)
(* member is marked Executed, no spending is recorded and the batch stays  *)
(* Approved; members are never transferred by an execute_batch call that   *)
(* does not also mark the batch Executed.                                  *)
(***************************************************************************)
ApprovedMembers(b) == {id \in Members(b) : txs[id].status = "Approved"}

\* A rejected transfer of an Approved member leaves the call no outcome.
C30_AbortsAsAWhole ==
    \A b \in DOMAIN batches, fails \in TransferFailures :
        /\ ApprovedMembers(b) \cap fails /= {} => ~ENABLED execute_batch(b, fails)
        /\ ~ENABLED (execute_batch(b, fails) /\ batches'[b].status /= "Executed")

\* The step that marks a batch Executed transfers every Approved member.
C30_WholeBatchStep ==
    \A b \in DOMAIN batches :
        batches'[b].status /= batches[b].status =>
            /\ batches[b].status = "Approved" => batches'[b].status \in {"Approved", "Executed"}
            /\ batches'[b].status = "Executed" =>
                   /\ \A id \in ApprovedMembers(b) :
                          /\ txs'[id].status = "Executed"
                          /\ transfers'[id] = Append(transfers[id], now)
                   /\ SpentOn(Today)' = SpentOn(Today) + SumAmounts(ApprovedMembers(b))

\* A transfer in a step that marks no batch Executed is the single one of
\* execute_transaction.
C30_NoPartialBatchStep ==
    (batches' = batches
         /\ \E id \in DOMAIN transfers : transfers'[id] /= transfers[id]) =>
        \E id \in DOMAIN txs :
            /\ ENABLED execute_transaction(id, {})
            /\ transfers' = [transfers EXCEPT ![id] = Append(@, now)]
            /\ txs' = [txs EXCEPT ![id].status = "Executed"]
            /\ SpentOn(Today)' = SpentOn(Today) + txs[id].amount

C30_ExecuteBatchAtomic ==
    /\ []C30_AbortsAsAWhole
    /\ [][C30_WholeBatchStep /\ C30_NoPartialBatchStep]_vars

\* An Approved batch of two Approved members that executes when every
\* transfer goes through.
C30_Witness ==
    \E b \in DOMAIN batches :
        /\ batches[b].status = "Approved"
        /\ Cardinality(ApprovedMembers(b)) = 2
        /\ ENABLED execute_batch(b, {})

(***************************************************************************)
(* C31: initialize succeeds at most once: after a successful initialize    *)
(* every further initialize call fails, and admin, config, registry, nonce *)
(* table and the paused and frozen flags are never set by it again.        *)
(***************************************************************************)
C31_SecondInitializeRejected ==
    Initialized =>
        \A adm \in Admins, c \in ConfigInputs, l \in InitialSignerLists :
            ~ENABLED initialize(adm, c, l)

\* The admin is written by the one step that leaves the uninitialized state;
\* after it the registry changes by one entry at a time only.
C31_InitializedOnce ==
    Initialized =>
        /\ admin' = admin
        /\ nonce_manager' = nonce_manager /\ paused' = paused /\ frozen' = frozen
        /\ config' = config
        /\ Len(signers') \in {Len(signers) - 1, Len(signers), Len(signers) + 1}

C31_InitializeAtMostOnce ==
    /\ []C31_SecondInitializeRejected
    /\ [][C31_InitializedOnce]_vars

\* The only signer added by initialize has been replaced by one that
\* add_signer added.
C31_Witness ==
    /\ Initialized
    /\ Len(signers) = 1
    /\ signers[1].weight = 2

(***************************************************************************)
(* SpecLimit: executions while the admin changes daily_spending_limit.     *)
(***************************************************************************)
CfgLowLimit == WalletConfig(1, 1, 1, 2, HalfDay, SECONDS_PER_DAY, 2, HalfDay)

CfgHighLimit == WalletConfig(1, 1, 4, 2, HalfDay, SECONDS_PER_DAY, 2, HalfDay)

NextLimit ==
    \/ initialize(ADMIN, CfgExec, << "S1" >>)
    \/ \E c \in {CfgExec, CfgLowLimit, CfgHighLimit} : update_config(c, TRUE)
    \/ \E a \in Amounts : \E n \in NextNonces("S1") :
           Proposals < MaxProposals /\ propose_transaction("R1", "TOKEN", a, "S1", n)
    \/ \E id \in DOMAIN txs : sign_transaction(id, "S1", TRUE)
    \/ \E id \in DOMAIN txs : execute_transaction(id, {})
    \/ \E id \in DOMAIN txs : \E n \in NextNonces("S1") :
           Proposals < MaxProposals /\ propose_batch(<< id >>, "S1", n)
    \/ \E b \in DOMAIN batches : sign_batch(b, "S1", TRUE)
    \/ \E b \in DOMAIN batches : execute_batch(b, {})
    \/ Tick(HalfDay)
    \/ TickToNextDay

SpecLimit == Init /\ [][NextLimit]_vars

(***************************************************************************)
(* C32: once a day's spending record exists, every execution of that day   *)
(* is held to the limit stored in the record; update_config changing       *)
(* daily_spending_limit later that day leaves the record's limit and the   *)
(* cap as they are and matters only for days without a record.             *)
(***************************************************************************)
\* The record's limit is the configured one at its creation and is kept.
C32_RecordLimitKept ==
    \A d \in DOMAIN daily_spending' :
        IF d \in DOMAIN daily_spending
        THEN daily_spending'[d].limit = daily_spending[d].limit
        ELSE daily_spending'[d].limit = Unwrap(config).daily_spending_limit

\* An execution on a day with a record stays within the record's limit.
C32_ExecutionWithinRecordLimit ==
    \A d \in DOMAIN daily_spending :
        daily_spending'[d].spent /= daily_spending[d].spent =>
            daily_spending'[d].spent <= daily_spending[d].limit

\* execute_transaction alone: the record's limit decides, not the config's.
C32_ExecuteTransactionUsesRecordLimit ==
    \A id \in DOMAIN txs :
        (/\ Today \in DOMAIN daily_spending
         /\ txs[id].status = "Approved"
         /\ CanExecuteAt(txs[id], now))
        => (ENABLED execute_transaction(id, {})
               <=> SpentOn(Today) + txs[id].amount <= daily_spending[Today].limit)

C32_DayRecordLimitApplies ==
    /\ []C32_ExecuteTransactionUsesRecordLimit
    /\ [][C32_RecordLimitKept /\ C32_ExecutionWithinRecordLimit]_vars

(***************************************************************************)
(* C33: in every state after initialize the number of registered active    *)
(* signers is at least config.m, whatever sequence of initialize,          *)
(* add_signer, remove_signer and update_config led there.                  *)
(***************************************************************************)
C33_ThresholdReachableInCount ==
    Initialized => Cardinality(ActiveSigners) >= Unwrap(config).m

(***************************************************************************)
(* SpecIds: two signers propose transactions with nonces of their choice,  *)
(* one of them signs, and the clock advances.                              *)
(***************************************************************************)
NextIds ==
    \/ initialize(ADMIN, CfgNonce, << "S1", "S2" >>)
    \/ \E p \in Proposers, n \in Nonces :
           Proposals < MaxProposals /\ propose_transaction("R1", "TOKEN", 1, p, n)
    \/ \E id \in DOMAIN txs : sign_transaction(id, "S1", TRUE)
    \/ Tick(HalfDay)

SpecIds == Init /\ [][NextIds]_vars

(***************************************************************************)
(* C34: every successful propose_transaction creates a new transaction     *)
(* record and never overwrites a stored one: no two successful proposals   *)
(* get the same id, so a later proposal never resets the signatures or the *)
(* status of a stored transaction.                                         *)
(***************************************************************************)
\* A proposal that would succeed now gets an id that is not stored yet.
C34_FreshId ==
    \A p \in Proposers, n \in Nonces :
        ENABLED propose_transaction("R1", "TOKEN", 1, p, n)
            => generate_transaction_id("R1", "TOKEN", 1, p, n, now) \notin DOMAIN txs

\* The step of a proposal (the one that uses a nonce) adds one record and
\* leaves the stored ones as they are; no step resets a stored record.
C34_ProposeAddsRecord ==
    /\ nonce_manager' /= nonce_manager =>
           /\ Cardinality(DOMAIN txs') = Cardinality(DOMAIN txs) + 1
           /\ \A id \in DOMAIN txs : txs'[id] = txs[id]
    /\ \A id \in DOMAIN txs :
           /\ id \in DOMAIN txs'
           /\ Len(txs'[id].signatures) >= Len(txs[id].signatures)
           /\ txs'[id].status = "Proposed" => txs[id].status = "Proposed"

C34_ProposalNeverOverwrites ==
    /\ []C34_FreshId
    /\ [][C34_ProposeAddsRecord]_vars

\* Two proposals that differ in the nonce only; the first one is signed.
C34_Witness ==
    \E id1, id2 \in DOMAIN txs :
        /\ id1 /= id2
        /\ \A k \in {1, 2, 3, 4, 6} : id1[k] = id2[k]
        /\ Len(txs[id1].signatures) = 1
        /\ txs[id2].signatures = << >>

(***************************************************************************)
(* SpecFrame: every call that writes a transaction record, while the admin *)
(* changes the timelock and expiry settings.                               *)
(***************************************************************************)
NextFrame ==
    \/ initialize(ADMIN, CfgExec, << "S1" >>)
    \/ \E c \in {CfgExec, CfgExpiry} : update_config(c, TRUE)
    \/ \E n \in NextNonces("S1") :
           Proposals < MaxProposals /\ propose_transaction("R1", "TOKEN", 2, "S1", n)
    \/ \E id \in DOMAIN txs : sign_transaction(id, "S1", TRUE)
    \/ \E id \in DOMAIN txs : execute_transaction(id, {})
    \/ \E id \in DOMAIN txs : \E n \in NextNonces("S1") :
           Proposals < MaxProposals /\ propose_batch(<< id >>, "S1", n)
    \/ \E b \in DOMAIN batches : sign_batch(b, "S1", TRUE)
    \/ \E b \in DOMAIN batches : execute_batch(b, {})
    \/ Tick(HalfDay)

SpecFrame == Init /\ [][NextFrame]_vars

(***************************************************************************)
(* C35: to, token, amount, proposer, created_at, expires_at and            *)
(* timelock_until of a stored transaction never change, whatever is        *)
(* called, update_config included; only signatures, status and batch_id    *)
(* are modified, and batch_id only from none to a batch id.                *)
(***************************************************************************)
DefiningFields ==
    {"id", "to", "token", "amount", "proposer", "created_at", "expires_at",
     "timelock_until"}

C35_FrameStep ==
    \A id \in DOMAIN txs :
        /\ id \in DOMAIN txs'
        /\ DOMAIN txs'[id] = DefiningFields \cup {"signatures", "status", "batch_id"}
        /\ \A f \in DefiningFields : txs'[id][f] = txs[id][f]
        /\ txs'[id].batch_id /= txs[id].batch_id =>
               /\ txs[id].batch_id = None
               /\ \E b \in DOMAIN batches' : txs'[id].batch_id = Some(b)

C35_DefiningFieldsFrozen == [][C35_FrameStep]_vars

\* An executed batch member whose expiry was computed under a configuration
\* that has been replaced since.
C35_Witness ==
    \E id \in DOMAIN txs :
        /\ txs[id].status = "Executed"
        /\ IsSome(txs[id].batch_id)
        /\ txs[id].expires_at /= txs[id].created_at + Unwrap(config).transaction_expiry

(***************************************************************************)
(* SpecProposer: proposals in the name of any of three addresses while the *)
(* admin adds and removes them from the registry.                          *)
(***************************************************************************)
NextProposer ==
    \/ initialize(ADMIN, CfgSignOne, << "S1", "S2" >>)
    \/ \E a \in Signers : add_signer(a, "Treasurer", 1, TRUE)
    \/ \E a \in Signers : remove_signer(a, TRUE)
    \/ \E p \in Signers : \E n \in NextNonces(p) :
           Proposals < MaxProposals /\ propose_transaction("R1", "TOKEN", 1, p, n)
    \/ \E l \in BatchLists, p \in Signers : \E n \in NextNonces(p) :
           Proposals < MaxProposals /\ propose_batch(l, p, n)

SpecProposer == Init /\ [][NextProposer]_vars

(***************************************************************************)
(* C36: propose_transaction and propose_batch fail for a proposer that is  *)
(* not a registered active signer, and the failed call consumes no nonce;  *)
(* the proposer of every stored transaction and batch was a registered     *)
(* active signer when it proposed.                                         *)
(***************************************************************************)
C36_UnregisteredProposerRejected ==
    \A p \in Signers \ ActiveSigners, n \in Nonces :
        /\ ~ENABLED propose_transaction("R1", "TOKEN", 1, p, n)
        /\ \A l \in BatchLists : ~ENABLED propose_batch(l, p, n)

C36_ProposerStep ==
    /\ \A id \in DOMAIN txs' \ DOMAIN txs : txs'[id].proposer \in ActiveSigners
    /\ \A b \in DOMAIN batches' \ DOMAIN batches : batches'[b].proposer \in ActiveSigners
    /\ \A p \in Signers :
           (p \in DOMAIN nonce_manager' /\
               (p \notin DOMAIN nonce_manager \/ nonce_manager'[p] /= nonce_manager[p]))
           => p \in ActiveSigners

C36_OnlySignersPropose ==
    /\ []C36_UnregisteredProposerRejected
    /\ [][C36_ProposerStep]_vars

\* The proposer of a stored transaction has left the registry; its nonce
\* stays recorded and a batch is stored as well.
C36_Witness ==
    \E id \in DOMAIN txs :
        /\ ~Registered(txs[id].proposer)
        /\ txs[id].proposer \in DOMAIN nonce_manager
        /\ batches /= EmptyMap

(***************************************************************************)
(* C37: the daily spending ledger is an exact account of the executions:   *)
(* for every day key d the recorded spent amount is the sum of the amounts *)
(* of the transactions executed (by execute_transaction or execute_batch)  *)
(* at a time of day d, so that every transfer is recorded on exactly one   *)
(* day.                                                                    *)
(***************************************************************************)
DayKeys == {k * SECONDS_PER_DAY : k \in 0..MaxTicks}

\* The number of transfers of a transaction made at a time of day d.
TransfersOn(id, d) ==
    Cardinality({i \in 1..Len(transfers[id]) :
                     d <= transfers[id][i] /\ transfers[id][i] < d + SECONDS_PER_DAY})

RECURSIVE TransferredOn(_, _)
TransferredOn(ids, d) ==
    IF ids = {} THEN 0
    ELSE LET id == CHOOSE x \in ids : TRUE
         IN  txs[id].amount * TransfersOn(id, d) + TransferredOn(ids \ {id}, d)

C37_LedgerIsExact ==
    /\ DOMAIN daily_spending \subseteq DayKeys
    /\ \A d \in DOMAIN daily_spending : daily_spending[d].date = d
    /\ \A d \in DayKeys : SpentOn(d) = TransferredOn(DOMAIN txs, d)
    /\ \A id \in DOMAIN txs :
           /\ txs[id].status = "Executed" <=> Len(transfers[id]) = 1
           /\ Len(transfers[id]) > 0 =>
                  Cardinality({d \in DayKeys : TransfersOn(id, d) > 0}) = 1

\* One transaction executed by execute_transaction on the first day and one
\* executed as a batch member on the second day.
C37_Witness ==
    \E id1, id2 \in DOMAIN txs :
        /\ ~IsSome(txs[id1].batch_id) /\ IsSome(txs[id2].batch_id)
        /\ Len(transfers[id1]) = 1 /\ transfers[id1][1] < SECONDS_PER_DAY
        /\ transfers[id2] = << SECONDS_PER_DAY >>
        /\ batches[Unwrap(txs[id2].batch_id)].status = "Executed"
        /\ SpentOn(0) = txs[id1].amount
        /\ SpentOn(SECONDS_PER_DAY) = txs[id2].amount

(***************************************************************************)
(* SpecSigned: proposals of negative, zero and positive amounts (amount is *)
(* an i128), signed and executed against a token contract that lets the    *)
(* transfer through.                                                       *)
(***************************************************************************)
SignedAmounts == {-1, 0, 1, 2}

NextSigned ==
    \/ initialize(ADMIN, CfgExec, << "S1" >>)
    \/ \E a \in SignedAmounts : \E n \in NextNonces("S1") :
           Proposals < MaxProposals /\ propose_transaction("R1", "TOKEN", a, "S1", n)
    \/ \E id \in DOMAIN txs : sign_transaction(id, "S1", TRUE)
    \/ \E id \in DOMAIN txs : execute_transaction(id, {})
    \/ \E id \in DOMAIN txs : \E n \in NextNonces("S1") :
           Proposals < MaxProposals /\ propose_batch(<< id >>, "S1", n)
    \/ \E b \in DOMAIN batches : sign_batch(b, "S1", TRUE)
    \/ \E b \in DOMAIN batches : execute_batch(b, {})
    \/ Tick(HalfDay)

SpecSigned == Init /\ [][NextSigned]_vars

(***************************************************************************)
(* C38: the recorded spent amount of every day is non-negative and never   *)
(* decreases: no proposal with amount <= 0 can be created and executed so  *)
(* as to lower the day's recorded spending.                                *)
(***************************************************************************)
C38_SpentNonNegative == \A d \in DOMAIN daily_spending : daily_spending[d].spent >= 0

C38_SpentStep ==
    \A d \in DOMAIN daily_spending :
        d \in DOMAIN daily_spending' /\ daily_spending'[d].spent >= daily_spending[d].spent

C38_SpentNeverDecreases ==
    /\ []C38_SpentNonNegative
    /\ [][C38_SpentStep]_vars

====
